---- MODULE Spec2Model ----
(***************************************************************************)
(* Orchestration core of opus-nx: the shared reasoning graph               *)
(* (graph/reasoning_graph.py), the per-session event bus (events/bus.py),  *)
(* the hypothesis-experiment lifecycle endpoints (server.py) and the swarm *)
(* pipeline (swarm.py).  Each component has its own specification over the *)
(* same variables; a handler that crosses components (checkpoint, compare, *)
(* the swarm run) uses the operators of the components it calls.           *)
(***************************************************************************)
EXTENDS Integers, Sequences, FiniteSets, TLC

(***************************************************************************)
(* Bounds of the model                                                     *)
(***************************************************************************)
\* number of successful graph mutations (= notifications) explored
MaxNotify == 3

\* number of subscriber queues ever created by subscribe
MaxQueues == 2
\* number of events ever published
MaxEvents == 3
\* capacity of a subscriber queue (asyncio.Queue(maxsize=500) in the code,
\* scaled down so that full queues are reached)
QueueMaxSize == 2

\* number of agents a deployment plan of the planner names
MaxPlanLen == 2
\* number of lifecycle requests (checkpoint, compare, retain) handled
MaxRequests == 3
\* number of background rerun tasks alive at the same time
MaxTasks == 2
\* last value of the monotonic clock
MaxClock == 4
\* number of events published while the reaper is observed
MaxReaperEvents == 1
\* number of lifecycle requests handled with the external store configured
MaxMirrorRequests == 3
\* number of rows the semantic search returns
MaxRows == 3
\* number of candidates selected for the preamble (4 in the code, scaled down)
TopK == 2
\* number of mutating graph calls explored while the readers are observed
MaxGraphOps == 2
\* number of graph mutations explored while the listeners are observed
MaxMutations == 2
\* number of events published while WebSocket connections are observed
MaxWsEvents == 1
\* settings.rate_limit_requests (20 in the code, scaled down)
RateLimitRequests == 2
\* settings.rate_limit_window_seconds in clock ticks (60 in the code, scaled down)
RateLimitWindow == 2

(***************************************************************************)
(* Finite universes                                                        *)
(***************************************************************************)
Sessions == {"sA", "sB"}
NodeIds == {"n1", "n2", "n3"}
Writers == {"w1", "w2"}

\* attribute value of a node that add_edge created implicitly (networkx
\* creates missing endpoints with an empty attribute dict)
Bare == "bare"
\* marker of a node id that is not in the graph
Absent == "absent"

VARIABLES
    graph_nodes,      \* _graph nodes: node id -> session_id attribute, Bare or Absent
    graph_edges,      \* _graph edges: set of <<source_id, target_id>>
    graph_lock,       \* holder of SharedReasoningGraph._lock, or "free"
    writer_pc,        \* position of each writer task: "idle" or "notify"
    writer_op,        \* the call a writer is executing
    writer_result,    \* outcome of the last call of each writer
    notifications,    \* what the registered listener has been called with, in order
    subscribers,      \* EventBus._subscribers: session id -> list of queues
    queues,           \* content of every asyncio.Queue created by subscribe
    queue_session,    \* the session id each queue was subscribed under
    drop_counts,      \* EventBus._drop_counts
    session_timestamps, \* EventBus._session_timestamps (NoTimestamp: no entry)
    now,              \* the clock read by datetime.now
    event_seq,        \* number of events published so far
    published,        \* per session, the events passed to publish, in order
    delivered,        \* per queue, the events its consumer took with get, in order
    run_pc,           \* position of the swarm run in _run_pipeline
    run_session,      \* session_id argument of the run
    run_query,        \* query argument of the run
    deployment_plan,  \* what _run_maestro returned (<<>>: the empty dict)
    primary_agents,   \* the primary agents built for Phase 1, in launch order
    agent_effort,     \* effort set on each constructed agent
    task_pc,          \* per agent: "none", "sleeping", "running", "resolved"
    fate,             \* how agent.run of each started agent ends
    cancelled,        \* agent tasks that were cancelled
    task_result,      \* what the awaited task of each agent resolved to
    agent_results,    \* the agent_results list of the pipeline
    run_outcome,      \* "none", "returned" or "raised"
    experiments,      \* _inmemory_experiments_by_id
    ids_by_session,   \* _inmemory_experiment_ids_by_session
    compare_inflight, \* _compare_inflight
    rerun_tasks,      \* background tasks made with asyncio.create_task
    lifecycle_metrics,\* _lifecycle_metrics
    response,         \* what the last lifecycle request returned
    created_status,   \* per experiment, the status its row was created with
    handled,          \* number of lifecycle requests handled so far
    rate_limit_log,   \* _rate_limit_log: per session the kept request times
    monotonic,        \* time.monotonic()
    rate_accepted,    \* per session, the times of all accepted start requests
    start_response,   \* session and status of the last start request
    ws_pc,            \* per connection: position of swarm_websocket
    ws_session,       \* per connection: the session of the URL
    ws_accepted,      \* per connection: websocket.accept() was called
    ws_queue,         \* per connection: the queue bus.subscribe returned
    ws_close_code,    \* per connection: code of websocket.close(), 0 for none
    ws_sent,          \* per connection: number of bus events sent to the client
    heartbeat_task,   \* per connection: state of the send_heartbeat task
    drain_task,       \* per connection: state of the drain_client_messages task
    listeners,        \* len(self._listeners): listeners 1..listeners are registered
    notify_index,     \* per writer: listeners its _notify loop has gone through
    listener_log,     \* per listener: numbers of the mutations it was called with
    applied_count,    \* number of mutations applied to the graph so far
    writer_seq,       \* per writer: number of the mutation it is notifying
    notified,         \* per writer: listeners called for its current mutation
    listener_raised,  \* per writer: listeners that raised for its current mutation
    running,          \* the task that runs on the event loop, "none" between tasks
    pending_snapshot, \* per writer: the snapshot its load_snapshot is loading
    to_remove,        \* per writer: nodes its cleanup_session has still to remove
    last_read,        \* kind, argument and returned view of the read just taken
    graph_history,    \* the graph states before and after the mutations so far
    graph_ops,        \* number of mutating calls started
    rehydration_pc,   \* position of _build_reasoning_rehydration_context
    rehydration_session, \* the session the context is built for
    candidates,       \* the candidates built from the retrieved rows
    selected_rows,    \* the candidates selected for the preamble
    db_experiments,   \* the rows of the external store (status and decision)
    mem_experiments,  \* _inmemory_experiments_by_id when the external store is configured
    mirror_metrics,   \* the retention counters
    mirror_response,  \* the last request: handler, status acted on, outcome
    mirror_handled,   \* number of requests handled
    snap_nodes,       \* the source graph of a round trip: node -> session
    snap_attrs,       \* the source graph: node -> attributes
    snap_edges,       \* the source graph: edges
    snap_pc,          \* build, exported, loaded
    exported,         \* what to_snapshot returned
    new_graph,        \* the graph that load_snapshot filled
    retry,            \* one call of a method under async_retry
    mutex,            \* the five asyncio locks and the calls that take them
    reaper            \* prune_stale_sessions: position and the stale list it works on

graph_vars == <<graph_nodes, graph_edges, graph_lock, writer_pc, writer_op,
                writer_result, notifications>>

bus_vars == <<subscribers, queues, queue_session, drop_counts,
              session_timestamps, now, event_seq, published, delivered>>

swarm_vars == <<run_pc, run_session, run_query, deployment_plan, primary_agents,
                agent_effort, task_pc, fate, cancelled, task_result,
                agent_results, run_outcome>>

lifecycle_vars == <<experiments, ids_by_session, compare_inflight, rerun_tasks,
                    lifecycle_metrics, response, created_status, handled>>

rate_vars == <<rate_limit_log, monotonic, rate_accepted, start_response>>

listener_vars == <<listeners, notify_index, listener_log, applied_count,
                   writer_seq, notified, listener_raised>>

read_vars == <<running, pending_snapshot, to_remove, last_read, graph_history,
               graph_ops>>

rehydration_vars == <<rehydration_pc, rehydration_session, candidates, selected_rows>>

mirror_vars == <<db_experiments, mem_experiments, mirror_metrics, mirror_response,
                 mirror_handled>>

snapshot_vars == <<snap_nodes, snap_attrs, snap_edges, snap_pc, exported, new_graph>>

retry_vars == <<retry>>

mutex_vars == <<mutex>>

reaper_vars == <<reaper>>

ws_vars == <<ws_pc, ws_session, ws_accepted, ws_queue, ws_close_code, ws_sent,
             heartbeat_task, drain_task>>

vars == <<graph_nodes, graph_edges, graph_lock, writer_pc, writer_op,
          writer_result, notifications,
          subscribers, queues, queue_session, drop_counts,
          session_timestamps, now, event_seq, published, delivered,
          run_pc, run_session, run_query, deployment_plan, primary_agents,
          agent_effort, task_pc, fate, cancelled, task_result,
          agent_results, run_outcome,
          experiments, ids_by_session, compare_inflight, rerun_tasks,
          lifecycle_metrics, response, created_status, handled,
          rate_limit_log, monotonic, rate_accepted, start_response,
          ws_pc, ws_session, ws_accepted, ws_queue, ws_close_code, ws_sent,
          heartbeat_task, drain_task,
          listeners, notify_index, listener_log, applied_count,
          writer_seq, notified, listener_raised,
          running, pending_snapshot, to_remove, last_read, graph_history,
          graph_ops,
          rehydration_pc, rehydration_session, candidates, selected_rows,
          db_experiments, mem_experiments, mirror_metrics, mirror_response,
          mirror_handled,
          snap_nodes, snap_attrs, snap_edges, snap_pc, exported, new_graph,
          retry, mutex, reaper>>

(***************************************************************************)
(* Reasoning graph                                                         *)
(***************************************************************************)
NoOp == [kind |-> "none"]

Range(f) == {f[i] : i \in DOMAIN f}

in_graph(nodes) == {n \in NodeIds : nodes[n] # Absent}

successors(edges, S) == {e[2] : e \in {f \in edges : f[1] \in S}}

RECURSIVE reach(_, _)
reach(edges, S) ==
    LET T == S \cup successors(edges, S)
    IN  IF T = S THEN S ELSE reach(edges, T)

\* nx.has_path(G, source, target): the trivial path counts (source = target)
has_path(edges, source, target) == target \in reach(edges, {source})

\* a cycle check that asks for the path only
cycle_detected_path_only(nodes, edges, source_id, target_id) ==
    has_path(edges, target_id, source_id)

\* the guard of add_edge that raises CycleDetectedError
cycle_detected(nodes, edges, source_id, target_id) ==
    /\ target_id \in in_graph(nodes)
    /\ source_id \in in_graph(nodes)
    /\ has_path(edges, target_id, source_id)

\* nx.DiGraph.add_edge: missing endpoints are created without attributes
nx_add_edge_nodes(nodes, source_id, target_id) ==
    [n \in NodeIds |->
        IF n \in {source_id, target_id} /\ nodes[n] = Absent THEN Bare ELSE nodes[n]]

\* add_edge with the insertion moved in front of the cycle check
add_edge_effect_insert_first(nodes, edges, source_id, target_id) ==
    [nodes |-> nx_add_edge_nodes(nodes, source_id, target_id),
     edges |-> edges \cup {<<source_id, target_id>>},
     raised |-> cycle_detected(nodes, edges, source_id, target_id)]

\* the graph after the body of add_edge, and whether it raised
add_edge_effect(nodes, edges, source_id, target_id) ==
    IF cycle_detected(nodes, edges, source_id, target_id)
    THEN [nodes |-> nodes, edges |-> edges, raised |-> TRUE]
    ELSE [nodes |-> nx_add_edge_nodes(nodes, source_id, target_id),
          edges |-> edges \cup {<<source_id, target_id>>},
          raised |-> FALSE]

\* the graph after self._graph.add_node(node.id, **node.model_dump())
add_node_effect(nodes, node_id, session_id) ==
    [nodes EXCEPT ![node_id] = session_id]

\* a lock that never makes a caller wait
lock_free_unguarded(lock) == TRUE

\* async with self._lock: the caller goes on only when nobody holds the lock
lock_free(lock) == lock = "free"

GraphInit ==
    /\ graph_nodes = [n \in NodeIds |-> Absent]
    /\ graph_edges = {}
    /\ graph_lock = "free"
    /\ writer_pc = [w \in Writers |-> "idle"]
    /\ writer_op = [w \in Writers |-> NoOp]
    /\ writer_result = [w \in Writers |-> "none"]
    /\ notifications = <<>>

\* add_node: take the lock, insert, then await the listeners inside the lock
add_node(w, node_id, session_id) ==
    /\ writer_pc[w] = "idle"
    /\ lock_free(graph_lock)
    /\ Len(notifications) < MaxNotify
    /\ graph_nodes' = add_node_effect(graph_nodes, node_id, session_id)
    /\ graph_lock' = w
    /\ writer_pc' = [writer_pc EXCEPT ![w] = "notify"]
    /\ writer_op' = [writer_op EXCEPT ![w] =
            [kind |-> "node_added", id |-> node_id, session_id |-> session_id]]
    /\ writer_result' = [writer_result EXCEPT ![w] = "none"]
    /\ UNCHANGED <<graph_edges, notifications>>

\* add_edge: take the lock, check for a cycle, raise or insert
add_edge(w, source_id, target_id) ==
    /\ writer_pc[w] = "idle"
    /\ lock_free(graph_lock)
    /\ Len(notifications) < MaxNotify
    /\ LET r == add_edge_effect(graph_nodes, graph_edges, source_id, target_id)
       IN  /\ graph_nodes' = r.nodes
           /\ graph_edges' = r.edges
           /\ IF r.raised
              THEN /\ writer_result' = [writer_result EXCEPT ![w] = "CycleDetected"]
                   /\ UNCHANGED <<graph_lock, writer_pc, writer_op>>
              ELSE /\ writer_result' = [writer_result EXCEPT ![w] = "none"]
                   /\ writer_op' = [writer_op EXCEPT ![w] =
                          [kind |-> "edge_added", source_id |-> source_id,
                           target_id |-> target_id]]
                   /\ graph_lock' = w
                   /\ writer_pc' = [writer_pc EXCEPT ![w] = "notify"]
    /\ UNCHANGED notifications

\* _notify: the listener is called with the mutation; the lock is released
\* when the call returns
notify(w) ==
    /\ writer_pc[w] = "notify"
    /\ graph_lock = w
    /\ notifications' = Append(notifications, writer_op[w])
    /\ graph_lock' = "free"
    /\ writer_pc' = [writer_pc EXCEPT ![w] = "idle"]
    /\ writer_result' = [writer_result EXCEPT ![w] = "ok"]
    /\ writer_op' = [writer_op EXCEPT ![w] = NoOp]
    /\ UNCHANGED <<graph_nodes, graph_edges>>

(***************************************************************************)
(* Event bus                                                               *)
(***************************************************************************)
QueueIds == 1..MaxQueues
NoTimestamp == -1

\* a typed SwarmEvent object, and a raw dict as the lifecycle code passes it
\* (seq stands for the creation timestamp, agent is "" for events without one)
swarm_event(tag, agent, session_id, seq) ==
    [class |-> "SwarmEvent", event |-> tag, agent |-> agent,
     session_id |-> session_id, seq |-> seq]
raw_event(tag, session_id, seq) ==
    [event |-> tag, agent |-> "", session_id |-> session_id, seq |-> seq]

is_dict(ev) == "class" \notin DOMAIN ev

\* event.model_dump(mode="json"): the transport dict of a typed event
model_dump(ev) ==
    [event |-> ev.event, agent |-> ev.agent, session_id |-> ev.session_id,
     seq |-> ev.seq]

\* what publish hands to put_nowait: the dump of a typed event, or the raw
\* dict itself (the AttributeError branch)
transport(ev) == IF is_dict(ev) THEN ev ELSE model_dump(ev)

\* queue.put_nowait raises QueueFull
queue_full(q) == Len(q) >= QueueMaxSize

\* publish with put at the front of the queue instead of the back
RECURSIVE publish_loop_put_front(_, _, _, _)
publish_loop_put_front(subs, qs, drops, item) ==
    IF subs = <<>>
    THEN [queues |-> qs, drops |-> drops]
    ELSE LET q == Head(subs)
         IN  IF queue_full(qs[q])
             THEN publish_loop_put_front(Tail(subs), qs, drops + 1, item)
             ELSE publish_loop_put_front(Tail(subs),
                      [qs EXCEPT ![q] = <<item>> \o @], drops, item)

\* publish with the try/except around the whole loop: the first full queue
\* ends the delivery
publish_loop_stop_on_full(subs, qs, drops, item) ==
    LET RECURSIVE go(_, _)
        go(rest, acc) ==
            IF rest = <<>>
            THEN [queues |-> acc, drops |-> drops]
            ELSE IF queue_full(acc[Head(rest)])
                 THEN [queues |-> acc, drops |-> drops + 1]
                 ELSE go(Tail(rest), [acc EXCEPT ![Head(rest)] = Append(@, item)])
    IN  go(subs, qs)

\* the loop of publish over the subscriber list of the session, with the
\* try/except around put_nowait: a full queue counts one drop and the loop
\* goes on with the next queue
RECURSIVE publish_loop(_, _, _, _)
publish_loop(subs, qs, drops, item) ==
    IF subs = <<>>
    THEN [queues |-> qs, drops |-> drops]
    ELSE LET q == Head(subs)
         IN  IF queue_full(qs[q])
             THEN publish_loop(Tail(subs), qs, drops + 1, item)
             ELSE publish_loop(Tail(subs), [qs EXCEPT ![q] = Append(@, item)],
                               drops, item)

\* publish that walks the queues of every session
bus_publish_all_sessions(session_id, ev) ==
    LET RECURSIVE all_subs(_)
        all_subs(S) ==
            IF S = {} THEN <<>>
            ELSE LET x == CHOOSE y \in S : TRUE
                 IN  subscribers[x] \o all_subs(S \ {x})
        r == publish_loop(all_subs(Sessions), queues,
                          drop_counts[session_id], transport(ev))
    IN  /\ session_timestamps' = [session_timestamps EXCEPT ![session_id] = now]
        /\ queues' = r.queues
        /\ drop_counts' = [drop_counts EXCEPT ![session_id] = r.drops]
        /\ published' = [published EXCEPT ![session_id] = Append(@, transport(ev))]
        /\ event_seq' = event_seq + 1
        /\ UNCHANGED <<subscribers, queue_session, now, delivered>>

\* the part of the bus that publish reads and writes
bus_state ==
    [queues |-> queues, drop_counts |-> drop_counts,
     session_timestamps |-> session_timestamps, published |-> published,
     event_seq |-> event_seq]

\* EventBus.publish as a function of the bus state
publish_effect(b, session_id, ev) ==
    LET r == publish_loop(subscribers[session_id], b.queues,
                          b.drop_counts[session_id], transport(ev))
    IN  [queues |-> r.queues,
         drop_counts |-> [b.drop_counts EXCEPT ![session_id] = r.drops],
         session_timestamps |-> [b.session_timestamps EXCEPT ![session_id] = now],
         published |-> [b.published EXCEPT ![session_id] = Append(@, transport(ev))],
         event_seq |-> b.event_seq + 1]

\* several typed events published one after the other without suspension;
\* evs is a sequence of <<event tag, agent>>
RECURSIVE publish_seq_effect(_, _, _)
publish_seq_effect(b, session_id, evs) ==
    IF evs = <<>> THEN b
    ELSE publish_seq_effect(
            publish_effect(b, session_id,
                swarm_event(Head(evs)[1], Head(evs)[2], session_id, b.event_seq + 1)),
            session_id, Tail(evs))

bus_becomes(r) ==
    /\ queues' = r.queues
    /\ drop_counts' = r.drop_counts
    /\ session_timestamps' = r.session_timestamps
    /\ published' = r.published
    /\ event_seq' = r.event_seq
    /\ UNCHANGED <<subscribers, queue_session, now, delivered>>

\* the bus part of a step that calls bus.publish(session_id, ev)
bus_publish(session_id, ev) == bus_becomes(publish_effect(bus_state, session_id, ev))

\* the bus part of a step that publishes the typed events evs in a row
bus_publish_seq(session_id, evs) ==
    bus_becomes(publish_seq_effect(bus_state, session_id, evs))

BusInit ==
    /\ subscribers = [s \in Sessions |-> <<>>]
    /\ queues = [q \in QueueIds |-> <<>>]
    /\ queue_session = [q \in QueueIds |-> "none"]
    /\ drop_counts = [s \in Sessions |-> 0]
    /\ session_timestamps = [s \in Sessions |-> NoTimestamp]
    /\ now = 0
    /\ event_seq = 0
    /\ published = [s \in Sessions |-> <<>>]
    /\ delivered = [q \in QueueIds |-> <<>>]

created_queues == {q \in QueueIds : queue_session[q] # "none"}

\* subscribe: a new bounded queue is appended to the session's list
subscribe(session_id) ==
    /\ Cardinality(created_queues) < MaxQueues
    /\ LET q == Cardinality(created_queues) + 1
       IN  /\ subscribers' = [subscribers EXCEPT ![session_id] = Append(@, q)]
           /\ queue_session' = [queue_session EXCEPT ![q] = session_id]
    /\ session_timestamps' = [session_timestamps EXCEPT ![session_id] = now]
    /\ UNCHANGED <<queues, drop_counts, now, event_seq, published, delivered>>

\* publish of a typed event, or of a raw dict that carries the same fields
publish(session_id, raw) ==
    /\ event_seq < MaxEvents
    /\ bus_publish(session_id,
                   IF raw THEN raw_event("swarm_started", session_id, event_seq + 1)
                          ELSE swarm_event("swarm_started", "", session_id,
                                           event_seq + 1))

\* unsubscribe: the list of the session without that queue object
unsubscribe(session_id, q) ==
    /\ q \in created_queues
    /\ subscribers' = [subscribers EXCEPT ![session_id] =
                          SelectSeq(@, LAMBDA x : x # q)]
    /\ UNCHANGED <<queues, queue_session, drop_counts, session_timestamps, now,
                   event_seq, published, delivered>>

\* EventBus.cleanup_session: queues, timestamp and drop stats of the session go
bus_cleanup_session(session_id) ==
    /\ session_timestamps[session_id] # NoTimestamp
    /\ subscribers' = [subscribers EXCEPT ![session_id] = <<>>]
    /\ drop_counts' = [drop_counts EXCEPT ![session_id] = 0]
    /\ session_timestamps' = [session_timestamps EXCEPT ![session_id] = NoTimestamp]
    /\ UNCHANGED <<queues, queue_session, now, event_seq, published, delivered>>

\* the WebSocket handler that owns the queue takes the next event with
\* queue.get() and sends it
queue_get(q) ==
    /\ q \in created_queues
    /\ queues[q] # <<>>
    /\ delivered' = [delivered EXCEPT ![q] = Append(@, Head(queues[q]))]
    /\ queues' = [queues EXCEPT ![q] = Tail(@)]
    /\ UNCHANGED <<subscribers, queue_session, drop_counts, session_timestamps,
                   now, event_seq, published>>

(***************************************************************************)
(* Swarm pipeline                                                          *)
(***************************************************************************)
\* the agents that have a constructor in _run_pipeline, in default order
DefaultPrimaries == <<"deep_thinker", "contrarian", "verifier">>
agent_constructors == {"deep_thinker", "contrarian", "verifier"}
AgentNames == agent_constructors \cup {"maestro", "synthesizer", "metacognition"}

\* names a plan can carry: the planner's tool input is not validated, so a
\* name without a constructor is possible
PlanNames == agent_constructors \cup {"researcher"}
\* the effort a plan gives an agent; it differs from every fallback effort
PlanEfforts == {"low"}
PlanEntries == [name : PlanNames, effort : PlanEfforts]

\* the plans the planner can return.  A name listed twice would give two
\* agents and two tasks that go through the same code; plans here name each
\* agent once so that a task is identified by its agent's name.
Plans ==
    {p \in UNION {[1..n -> PlanEntries] : n \in 1..MaxPlanLen} :
        \A i, j \in DOMAIN p : i # j => p[i].name # p[j].name}

\* a query, as far as the regular expressions of classify_complexity see it
Queries == [simple_prefix : BOOLEAN, complex_word : BOOLEAN]

classify_complexity(query) ==
    IF query.simple_prefix THEN "simple"
    ELSE IF query.complex_word THEN "complex"
    ELSE "standard"

EFFORT_MAP == [simple |-> "medium", standard |-> "high", complex |-> "max"]

Outcomes == {"completed", "raise", "timeout"}
NoResult == [kind |-> "none", status |-> "none"]
\* a task that ended with an exception instead of an AgentResult
ExceptionResult == [kind |-> "exception", status |-> "none"]

names_of(plan) == [i \in DOMAIN plan |-> plan[i].name]

\* agent_names_for_event: the names of the plan, or the three defaults
agent_names_for_event(plan) ==
    IF plan # <<>> THEN names_of(plan) ELSE DefaultPrimaries

\* the loop that builds primary_agents: names without constructor are skipped
build_primary_agents(plan) ==
    SelectSeq(agent_names_for_event(plan), LAMBDA n : n \in agent_constructors)

\* effort_map.get(name, default)
effort_map_get(plan, name, default) ==
    IF \E i \in DOMAIN plan : plan[i].name = name
    THEN (CHOOSE e \in PlanEntries :
            \E i \in DOMAIN plan : plan[i] = e /\ e.name = name).effort
    ELSE default

\* the effort each agent of the run is given
assign_effort(plan, query) ==
    LET fallback_effort == EFFORT_MAP[classify_complexity(query)]
    IN  [a \in AgentNames |->
            IF a \in Range(build_primary_agents(plan))
            THEN IF a = "deep_thinker"
                 THEN effort_map_get(plan, a, "max")
                 ELSE effort_map_get(plan, a, fallback_effort)
            ELSE IF a = "synthesizer" THEN fallback_effort
            ELSE IF a = "metacognition" THEN "max"
            ELSE IF a = "maestro" THEN "high"
            ELSE "none"]

\* _run_with_timeout without the except Exception clause
run_with_timeout_no_except(outcome) ==
    IF outcome = "completed" THEN [kind |-> "result", status |-> "completed"]
    ELSE IF outcome = "timeout" THEN [kind |-> "result", status |-> "timeout"]
    ELSE ExceptionResult

\* _run_with_timeout: what the wrapper returns for each way agent.run ends
run_with_timeout(outcome) ==
    IF outcome = "completed" THEN [kind |-> "result", status |-> "completed"]
    ELSE IF outcome = "timeout" THEN [kind |-> "result", status |-> "timeout"]
    ELSE [kind |-> "result", status |-> "error"]

\* a task group: the failure of one task cancels every task of the group
task_group_cancels(a, outcome, group) ==
    IF outcome = "completed" THEN {} ELSE group

\* asyncio.wait_for inside asyncio.gather(return_exceptions=True): a timeout
\* cancels the awaited agent task and nothing else
wait_for_cancels(a, outcome, group) ==
    IF outcome = "timeout" THEN {a} ELSE {}

\* gather that returns as soon as one task has resolved
gather_ready_first_completed(agents, pcs) ==
    agents = <<>> \/ \E i \in DOMAIN agents : pcs[agents[i]] = "resolved"

\* asyncio.gather returns when every task has resolved
gather_ready(agents, pcs) ==
    \A i \in DOMAIN agents : pcs[agents[i]] = "resolved"

\* the loop over zip(primary_agents, results) after gather
gather_entries(agents, results) ==
    [i \in DOMAIN agents |->
        IF results[agents[i]].kind = "result"
        THEN [agent |-> agents[i], status |-> results[agents[i]].status]
        ELSE [agent |-> agents[i], status |-> "error"]]

SwarmInit ==
    /\ run_pc = "idle"
    /\ run_session = "none"
    /\ run_query = [simple_prefix |-> FALSE, complex_word |-> FALSE]
    /\ deployment_plan = <<>>
    /\ primary_agents = <<>>
    /\ agent_effort = [a \in AgentNames |-> "none"]
    /\ task_pc = [a \in AgentNames |-> "none"]
    /\ fate = [a \in AgentNames |-> "none"]
    /\ cancelled = {}
    /\ task_result = [a \in AgentNames |-> NoResult]
    /\ agent_results = <<>>
    /\ run_outcome = "none"

\* SwarmManager.run is called; without persistence the rehydration pre-phase
\* returns "" and _run_maestro is entered
swarm_run(session_id, query) ==
    /\ run_pc = "idle"
    /\ run_pc' = "maestro"
    /\ run_session' = session_id
    /\ run_query' = query
    /\ task_pc' = [task_pc EXCEPT !["maestro"] = "sleeping"]
    /\ UNCHANGED <<deployment_plan, primary_agents, agent_effort, fate, cancelled,
                   task_result, agent_results, run_outcome>>
    /\ UNCHANGED bus_vars

\* agent.run begins: emit_started is its first statement
agent_start(a, outcome) ==
    /\ task_pc[a] = "sleeping"
    /\ a \notin cancelled
    /\ \/ run_pc = "maestro" /\ a = "maestro"
       \/ /\ run_pc = "phase1"
          /\ \E i \in DOMAIN primary_agents :
                /\ primary_agents[i] = a
                /\ \A j \in 1..(i - 1) : task_pc[primary_agents[j]] # "sleeping"
       \/ run_pc = "phase2" /\ a = "synthesizer"
       \/ run_pc = "phase3" /\ a = "metacognition"
    /\ task_pc' = [task_pc EXCEPT ![a] = "running"]
    /\ fate' = [fate EXCEPT ![a] = outcome]
    /\ bus_publish(run_session,
                   swarm_event("agent_started", a, run_session, event_seq + 1))
    /\ UNCHANGED <<run_pc, run_session, run_query, deployment_plan, primary_agents,
                   agent_effort, cancelled, task_result, agent_results, run_outcome>>

\* _run_maestro returns (the plan, or {} after a timeout or an error); the
\* pipeline publishes SwarmStarted, builds the primary agents and awaits gather
maestro_return(plan) ==
    /\ run_pc = "maestro"
    /\ task_pc["maestro"] = "running"
    /\ LET p == IF fate["maestro"] = "completed" THEN plan ELSE <<>>
           agents == build_primary_agents(p)
       IN  /\ deployment_plan' = p
           /\ primary_agents' = agents
           /\ agent_effort' = assign_effort(p, run_query)
           /\ task_pc' = [a \in AgentNames |->
                            IF a = "maestro" THEN "resolved"
                            ELSE IF a \in Range(agents) THEN "sleeping"
                            ELSE task_pc[a]]
           /\ bus_publish_seq(run_session,
                  (IF fate["maestro"] = "completed"
                   THEN <<(<<"maestro_decomposition", "">>),
                          (<<"agent_completed", "maestro">>)>>
                   ELSE <<>>) \o <<(<<"swarm_started", "">>)>>)
    /\ UNCHANGED task_result
    /\ cancelled' = IF fate["maestro"] = "timeout"
                    THEN cancelled \cup {"maestro"} ELSE cancelled
    /\ run_pc' = "phase1"
    /\ UNCHANGED <<run_session, run_query, fate, agent_results, run_outcome>>

\* the awaited run of a Phase 1, 2 or 3 agent ends and _run_with_timeout
\* returns; a cancelled sibling resolves with CancelledError
agent_finish(a) ==
    /\ a # "maestro"
    /\ task_pc[a] = "running"
    /\ LET group == Range(primary_agents)
           hit == IF a \in group THEN wait_for_cancels(a, fate[a], group)
                  ELSE wait_for_cancels(a, fate[a], {a})
           stopped == {b \in hit \ {a} : task_pc[b] \in {"sleeping", "running"}}
       IN  /\ cancelled' = cancelled \cup hit
           /\ task_pc' = [b \in AgentNames |->
                            IF b = a \/ b \in stopped THEN "resolved" ELSE task_pc[b]]
           /\ task_result' = [b \in AgentNames |->
                                IF b = a THEN run_with_timeout(fate[a])
                                ELSE IF b \in stopped THEN ExceptionResult
                                ELSE task_result[b]]
    /\ IF fate[a] = "completed"
       THEN bus_publish(run_session,
                        swarm_event("agent_completed", a, run_session, event_seq + 1))
       ELSE UNCHANGED bus_vars
    /\ UNCHANGED <<run_pc, run_session, run_query, deployment_plan, primary_agents,
                   agent_effort, fate, agent_results, run_outcome>>

\* gather returns; the results are collected and the synthesizer is awaited
gather_return ==
    /\ run_pc = "phase1"
    /\ gather_ready(primary_agents, task_pc)
    /\ agent_results' = gather_entries(primary_agents, task_result)
    /\ run_pc' = "phase2"
    /\ task_pc' = [task_pc EXCEPT !["synthesizer"] = "sleeping"]
    /\ UNCHANGED <<run_session, run_query, deployment_plan, primary_agents,
                   agent_effort, fate, cancelled, task_result, run_outcome>>
    /\ UNCHANGED bus_vars

\* the synthesizer's wrapper returns; its result is appended and the meta
\* agent is awaited (an exception would leave the pipeline)
phase2_return ==
    /\ run_pc = "phase2"
    /\ task_pc["synthesizer"] = "resolved"
    /\ IF task_result["synthesizer"].kind = "result"
       THEN /\ agent_results' = Append(agent_results,
                    [agent |-> "synthesizer",
                     status |-> task_result["synthesizer"].status])
            /\ run_pc' = "phase3"
            /\ task_pc' = [task_pc EXCEPT !["metacognition"] = "sleeping"]
            /\ UNCHANGED run_outcome
       ELSE /\ run_pc' = "done"
            /\ run_outcome' = "raised"
            /\ UNCHANGED <<agent_results, task_pc>>
    /\ UNCHANGED <<run_session, run_query, deployment_plan, primary_agents,
                   agent_effort, fate, cancelled, task_result>>
    /\ UNCHANGED bus_vars

\* the meta agent's wrapper returns; the SwarmResult is built and returned
phase3_return ==
    /\ run_pc = "phase3"
    /\ task_pc["metacognition"] = "resolved"
    /\ IF task_result["metacognition"].kind = "result"
       THEN /\ agent_results' = Append(agent_results,
                    [agent |-> "metacognition",
                     status |-> task_result["metacognition"].status])
            /\ run_outcome' = "returned"
       ELSE /\ run_outcome' = "raised"
            /\ UNCHANGED agent_results
    /\ run_pc' = "done"
    /\ UNCHANGED <<run_session, run_query, deployment_plan, primary_agents,
                   agent_effort, task_pc, fate, cancelled, task_result>>
    /\ UNCHANGED bus_vars

(***************************************************************************)
(* Hypothesis lifecycle: checkpoint, compare and retain endpoints with the *)
(* in-memory experiment store (no database configured).  In that           *)
(* configuration no await of a handler suspends, so a handler runs as one  *)
(* step; the tasks it creates run later.                                   *)
(***************************************************************************)
ExpIds == {"e1"}
TaskIds == 1..MaxTasks

LIFECYCLE_STATES ==
    {"promoted", "checkpointed", "rerunning", "comparing",
     "retained", "deferred", "archived"}

\* no status counts as final
FINAL_LIFECYCLE_STATES_none == {}

FINAL_LIFECYCLE_STATES == {"retained", "deferred", "archived"}

LIFECYCLE_TRANSITIONS ==
    [promoted |-> {"promoted", "checkpointed", "rerunning", "comparing",
                   "retained", "deferred", "archived"},
     checkpointed |-> {"checkpointed", "rerunning", "comparing",
                       "retained", "deferred", "archived"},
     rerunning |-> {"rerunning", "comparing", "promoted", "retained",
                    "deferred", "archived"},
     comparing |-> {"comparing", "rerunning", "retained", "deferred", "archived"},
     retained |-> {"retained", "archived"},
     deferred |-> {"deferred", "rerunning", "comparing", "retained", "archived"},
     archived |-> {"archived"}]

normalize_status(status, fallback) ==
    IF status \in LIFECYCLE_STATES THEN status ELSE fallback

\* a check that lets every step pass
can_transition_always(current_status, next_status) ==
    TRUE

can_transition(current_status, next_status) ==
    next_status \in LIFECYCLE_TRANSITIONS[normalize_status(current_status, "promoted")]

\* verdicts: "agree" stands for every verdict that is neither disagree nor explore
Verdicts == {"disagree", "explore", "agree"}
\* the text of a checkpoint request: none, an alternative summary, a correction
CheckpointTexts == {"none", "summary", "correction"}
Decisions == {"retain", "defer", "archive"}
\* the node a checkpoint request names; annotation nodes take the other ids
CheckpointTargets == {"n1"}

\* a key that the dict passed to the store does not have
Keep == "keep"

\* no row under that id
NoExperiment ==
    [status |-> "absent", session_id |-> "none", comparison_result |-> "none",
     retention_decision |-> "none", last_checkpoint |-> "none"]

NoTask ==
    [kind |-> "none", pc |-> "none", experiment_id |-> "none",
     session_id |-> "none", current_status |-> "none", last_checkpoint |-> "none"]

NoResponse == [handler |-> "none", mode |-> "none"]

\* an upsert that writes a status only if the transition table lists the
\* step from the stored status
inmemory_upsert_experiment_checked(store, experiment_id, session_id, status, comparison_result, retention_decision, last_checkpoint) ==
    LET existing == store[experiment_id]
        pick(new, old) == IF new = Keep THEN old ELSE new
        old_status == IF existing = NoExperiment THEN "promoted" ELSE existing.status
    IN  [store EXCEPT ![experiment_id] =
            [status |-> IF status = Keep \/ ~can_transition(old_status, status)
                        THEN old_status ELSE status,
             session_id |-> session_id,
             comparison_result |-> pick(comparison_result, existing.comparison_result),
             retention_decision |-> pick(retention_decision, existing.retention_decision),
             last_checkpoint |-> pick(last_checkpoint, existing.last_checkpoint)]]

\* _inmemory_upsert_experiment: the row merged from the existing row and the
\* keys of the given dict
inmemory_upsert_experiment(store, experiment_id, session_id, status, comparison_result, retention_decision, last_checkpoint) ==
    LET existing == store[experiment_id]
        pick(new, old) == IF new = Keep THEN old ELSE new
    IN  [store EXCEPT ![experiment_id] =
            [status |-> pick(status,
                             IF existing = NoExperiment THEN "promoted"
                             ELSE existing.status),
             session_id |-> session_id,
             comparison_result |-> pick(comparison_result, existing.comparison_result),
             retention_decision |-> pick(retention_decision, existing.retention_decision),
             last_checkpoint |-> pick(last_checkpoint, existing.last_checkpoint)]]

\* the session index after an upsert
index_after_upsert(index, experiment_id, session_id) ==
    [index EXCEPT ![session_id] = @ \cup {experiment_id}]

\* _persist_update of the compare handler: the requested status is checked
\* against the handler's own current_status, then the row is upserted
persist_update(store, experiment_id, session_id, current_status, status, comparison_result) ==
    LET target_status ==
            IF status = Keep THEN Keep
            ELSE IF can_transition(current_status,
                                   normalize_status(status, current_status))
                 THEN normalize_status(status, current_status)
                 ELSE current_status
    IN  [store |-> inmemory_upsert_experiment(store, experiment_id, session_id,
                                              target_status, comparison_result,
                                              Keep, Keep),
         current_status |-> IF target_status = Keep THEN current_status
                            ELSE target_status]

free_tasks == {t \in TaskIds : rerun_tasks[t] = NoTask}

\* asyncio.create_task: the new task takes a free slot
\* the task keeps the variables of the handler that its coroutine closes over
create_task(tasks, kind, experiment_id, session_id, current_status, last_checkpoint) ==
    LET t == CHOOSE x \in {y \in TaskIds : tasks[y] = NoTask} :
                \A y \in TaskIds : tasks[y] = NoTask => x <= y
    IN  [tasks EXCEPT ![t] =
            [kind |-> kind, pc |-> "created", experiment_id |-> experiment_id,
             session_id |-> session_id, current_status |-> current_status,
             last_checkpoint |-> last_checkpoint]]

\* an in-flight set that never gives an id back
inflight_discard_never(inflight, experiment_id) == inflight

\* _compare_inflight.discard(experiment_id) under _compare_inflight_lock
inflight_discard(inflight, experiment_id) == inflight \ {experiment_id}

\* the guard of the compare handler: a forced request is never turned away
inflight_guard(inflight, experiment_id, force_rerun) ==
    experiment_id \in inflight /\ ~force_rerun

\* an experiment id of a request that is not a UUID
NotAUuid == "not-a-uuid"

\* a counter update that does not count requests
increment_lifecycle_metric_completed_only(metrics, name) ==
    IF name = "compare_completed"
    THEN [metrics EXCEPT !.compare_completed = @ + 1]
    ELSE metrics

\* _increment_lifecycle_metric: one of the two compare counters goes up by one
increment_lifecycle_metric(metrics, name) ==
    IF name = "compare_requests"
    THEN [metrics EXCEPT !.compare_requests = @ + 1]
    ELSE IF name = "compare_completed"
    THEN [metrics EXCEPT !.compare_completed = @ + 1]
    ELSE metrics

\* the handler returns (or raises the HTTP error) mode
respond(handler, mode) ==
    /\ response' = [handler |-> handler, mode |-> mode]
    /\ handled' = handled + 1

LifecycleInit ==
    /\ experiments = [e \in ExpIds |-> NoExperiment]
    /\ ids_by_session = [s \in Sessions |-> {}]
    /\ compare_inflight = {}
    /\ rerun_tasks = [t \in TaskIds |-> NoTask]
    /\ lifecycle_metrics = [compare_requests |-> 0, compare_completed |-> 0,
                            retain |-> 0, defer |-> 0, archive |-> 0]
    /\ response = NoResponse
    /\ created_status = [e \in ExpIds |-> "none"]
    /\ handled = 0

\* POST /api/swarm/{session_id}/checkpoint
checkpoint_node(session_id, node_id, verdict, text, requested_id) ==
    /\ handled < MaxRequests
    /\ lock_free(graph_lock)
    /\ \E n \in NodeIds : n # node_id /\ graph_nodes[n] = Absent
    /\ LET \* the id of the annotation node is a fresh uuid
           annotation == CHOOSE n \in NodeIds : n # node_id /\ graph_nodes[n] = Absent
           with_node == add_node_effect(graph_nodes, annotation, session_id)
           edge == add_edge_effect(with_node, graph_edges, annotation, node_id)
           actionable == verdict \in {"disagree", "explore"} /\ text # "none"
           reruns == verdict = "disagree" /\ text = "correction"
           checkpoint == IF text = "correction" THEN "correction" ELSE "no_correction"
       IN  /\ graph_nodes' = edge.nodes
           /\ graph_edges' = edge.edges
           /\ notifications' = notifications \o
                 <<[kind |-> "node_added", id |-> annotation, session_id |-> session_id]>> \o
                 (IF edge.raised THEN <<>>
                  ELSE <<[kind |-> "edge_added", source_id |-> annotation,
                          target_id |-> node_id]>>)
           /\ UNCHANGED <<graph_lock, writer_pc, writer_op, writer_result>>
           /\ IF edge.raised
              THEN /\ respond("checkpoint", "error")
                   /\ UNCHANGED <<experiments, ids_by_session, compare_inflight,
                                  rerun_tasks, lifecycle_metrics, created_status>>
                   /\ UNCHANGED bus_vars
              ELSE /\ requested_id = "none" /\ actionable =>
                         \E e \in ExpIds : experiments[e] = NoExperiment
                   /\ reruns => free_tasks # {}
                   /\ LET experiment_id ==
                              IF requested_id # "none" THEN requested_id
                              ELSE IF actionable
                                   THEN CHOOSE e \in ExpIds : experiments[e] = NoExperiment
                                   ELSE "none"
                          existing == experiments[experiment_id]
                          linked ==
                              IF experiment_id = "none" THEN experiments
                              ELSE inmemory_upsert_experiment(
                                      experiments, experiment_id, session_id,
                                      IF existing = NoExperiment
                                      THEN (IF verdict \in {"disagree", "explore"}
                                            THEN "promoted" ELSE "checkpointed")
                                      ELSE existing.status,
                                      existing.comparison_result,
                                      existing.retention_decision,
                                      checkpoint)
                          final ==
                              IF experiment_id = "none" THEN experiments
                              ELSE IF reruns
                                   THEN inmemory_upsert_experiment(
                                           linked, experiment_id, session_id,
                                           "rerunning", Keep, Keep, checkpoint)
                                   ELSE inmemory_upsert_experiment(
                                           linked, experiment_id, session_id,
                                           "checkpointed", Keep, Keep, Keep)
                      IN  /\ experiments' = final
                          /\ created_status' =
                                IF experiment_id # "none" /\ existing = NoExperiment
                                THEN [created_status EXCEPT ![experiment_id] =
                                         linked[experiment_id].status]
                                ELSE created_status
                          /\ ids_by_session' =
                                IF experiment_id = "none" THEN ids_by_session
                                ELSE index_after_upsert(ids_by_session,
                                                        experiment_id, session_id)
                          /\ bus_publish_seq(session_id,
                                <<(<<"human_checkpoint", "">>)>> \o
                                (IF experiment_id = "none" THEN <<>>
                                 ELSE <<(<<"hypothesis_experiment_updated", "">>)>>))
                          /\ rerun_tasks' =
                                IF reruns
                                THEN create_task(rerun_tasks, "checkpoint", experiment_id,
                                                 session_id, "none", "none")
                                ELSE rerun_tasks
                          /\ respond("checkpoint",
                                   IF reruns THEN "rerun_started" ELSE "annotated")
                   /\ UNCHANGED <<compare_inflight, lifecycle_metrics>>

\* POST /api/swarm/experiments/{experiment_id}/compare; supplies says whether
\* the request carries node_id and correction
compare_hypothesis_experiment(experiment_id, force_rerun, rerun_if_missing, supplies) ==
    /\ handled < MaxRequests
    /\ UNCHANGED created_status
    /\ lifecycle_metrics' =
          LET counted == increment_lifecycle_metric(lifecycle_metrics, "compare_requests")
          IN  IF /\ experiment_id \in ExpIds
                 /\ experiments[experiment_id] # NoExperiment
                 /\ experiments[experiment_id].comparison_result # "none"
                 /\ ~force_rerun
              THEN increment_lifecycle_metric(counted, "compare_completed")
              ELSE counted
    /\ LET experiment == IF experiment_id \in ExpIds THEN experiments[experiment_id]
                         ELSE NoExperiment
           session_id == experiment.session_id
           has_existing_comparison == experiment.comparison_result # "none"
           current_status == normalize_status(experiment.status, "promoted")
           can_rerun == supplies \/ experiment.last_checkpoint = "correction"
           quiet(mode) ==
               /\ respond("compare", mode)
               /\ UNCHANGED <<experiments, ids_by_session, compare_inflight, rerun_tasks>>
               /\ UNCHANGED bus_vars
       IN  IF experiment_id \notin ExpIds THEN quiet("400")
           ELSE IF experiment = NoExperiment THEN quiet("404")
           ELSE IF has_existing_comparison /\ ~force_rerun
           THEN /\ IF current_status \notin FINAL_LIFECYCLE_STATES
                   THEN /\ experiments' =
                              persist_update(experiments, experiment_id, session_id,
                                             current_status, "comparing", Keep).store
                        /\ ids_by_session' = index_after_upsert(ids_by_session,
                                                                experiment_id, session_id)
                   ELSE UNCHANGED <<experiments, ids_by_session>>
                /\ bus_publish_seq(session_id,
                                   <<(<<"hypothesis_experiment_updated", "">>)>>)
                /\ respond("compare", "existing_result")
                /\ UNCHANGED <<compare_inflight, rerun_tasks>>
           ELSE IF current_status = "rerunning" /\ ~force_rerun
           THEN quiet("already_rerunning")
           ELSE IF ~rerun_if_missing /\ ~force_rerun THEN quiet("409")
           ELSE IF ~can_rerun THEN quiet("409")
           ELSE IF inflight_guard(compare_inflight, experiment_id, force_rerun)
           THEN quiet("inflight")
           ELSE \/ /\ free_tasks # {}
                   /\ compare_inflight' = compare_inflight \cup {experiment_id}
                   /\ LET r == persist_update(experiments, experiment_id, session_id,
                                              current_status, "rerunning", "pending")
                      IN  /\ experiments' = r.store
                          /\ rerun_tasks' = create_task(rerun_tasks, "compare",
                                               experiment_id, session_id,
                                               r.current_status, experiment.last_checkpoint)
                   /\ ids_by_session' = index_after_upsert(ids_by_session,
                                                           experiment_id, session_id)
                   /\ bus_publish_seq(session_id,
                                      <<(<<"hypothesis_experiment_updated", "">>)>>)
                   /\ respond("compare", "async_started")
                \* the try block raises after _persist_update, before the event
                \* is published: the id is discarded and the error is raised
                \/ /\ compare_inflight' =
                         inflight_discard(compare_inflight \cup {experiment_id},
                                          experiment_id)
                   /\ experiments' =
                         persist_update(experiments, experiment_id, session_id,
                                        current_status, "rerunning", "pending").store
                   /\ ids_by_session' = index_after_upsert(ids_by_session,
                                                           experiment_id, session_id)
                   /\ UNCHANGED rerun_tasks
                   /\ UNCHANGED bus_vars
                   /\ respond("compare", "500")

\* POST /api/swarm/experiments/{experiment_id}/retain
retain_hypothesis_experiment(experiment_id, decision) ==
    /\ handled < MaxRequests
    /\ LET experiment == experiments[experiment_id]
           session_id == experiment.session_id
           current_status == normalize_status(experiment.status, "promoted")
           next_status == IF decision = "archive" THEN "archived"
                          ELSE IF decision = "defer" THEN "deferred"
                          ELSE "retained"
           quiet(mode) ==
               /\ respond("retain", mode)
               /\ UNCHANGED <<experiments, ids_by_session, lifecycle_metrics>>
               /\ UNCHANGED bus_vars
       IN  IF experiment = NoExperiment THEN quiet("404")
           ELSE IF /\ current_status \in FINAL_LIFECYCLE_STATES
                   /\ experiment.retention_decision = decision
           THEN quiet("unchanged")
           ELSE IF ~can_transition(current_status, next_status) THEN quiet("409")
           ELSE /\ experiments' = inmemory_upsert_experiment(
                        experiments, experiment_id, session_id,
                        next_status, Keep, decision, Keep)
                /\ ids_by_session' = index_after_upsert(ids_by_session,
                                                        experiment_id, session_id)
                /\ lifecycle_metrics' = [lifecycle_metrics EXCEPT ![decision] = @ + 1]
                /\ bus_publish_seq(session_id,
                                   <<(<<"hypothesis_experiment_updated", "">>)>>)
                /\ respond("retain", "updated")
    /\ UNCHANGED <<compare_inflight, rerun_tasks, created_status>>

\* a background task starts: rerun_with_correction publishes SwarmRerunStarted
\* and awaits its two agents
rerun_begin(t) ==
    /\ rerun_tasks[t].pc = "created"
    /\ rerun_tasks' = [rerun_tasks EXCEPT ![t].pc = "running"]
    /\ bus_publish_seq(rerun_tasks[t].session_id, <<(<<"swarm_rerun_started", "">>)>>)
    /\ UNCHANGED <<experiments, ids_by_session, compare_inflight, lifecycle_metrics,
                   response, created_status, handled>>

\* _run_compare after rerun_with_correction returned (ok) or raised
run_compare_end(t, ok) ==
    /\ rerun_tasks[t].kind = "compare"
    /\ rerun_tasks[t].pc = "running"
    /\ LET task == rerun_tasks[t]
           r == IF ok
                THEN persist_update(experiments, task.experiment_id, task.session_id,
                                    task.current_status, "comparing", "result")
                ELSE [store |-> inmemory_upsert_experiment(
                          persist_update(experiments, task.experiment_id,
                                         task.session_id, task.current_status,
                                         "promoted", Keep).store,
                          task.experiment_id, task.session_id,
                          Keep, Keep, Keep, task.last_checkpoint),
                      current_status |-> "none"]
       IN  /\ experiments' = r.store
           /\ ids_by_session' = index_after_upsert(ids_by_session, task.experiment_id,
                                                   task.session_id)
           /\ compare_inflight' = inflight_discard(compare_inflight, task.experiment_id)
           /\ IF ok
              THEN /\ lifecycle_metrics' =
                         increment_lifecycle_metric(lifecycle_metrics, "compare_completed")
                   /\ bus_publish_seq(task.session_id,
                                      <<(<<"hypothesis_experiment_updated", "">>)>>)
              ELSE /\ UNCHANGED lifecycle_metrics
                   /\ UNCHANGED bus_vars
    /\ rerun_tasks' = [rerun_tasks EXCEPT ![t] = NoTask]
    /\ UNCHANGED <<response, created_status, handled>>

\* _rerun of the checkpoint handler after rerun_with_correction returned (ok)
\* or raised
checkpoint_rerun_end(t, ok) ==
    /\ rerun_tasks[t].kind = "checkpoint"
    /\ rerun_tasks[t].pc = "running"
    /\ LET task == rerun_tasks[t]
       IN  /\ IF task.experiment_id = "none"
              THEN UNCHANGED <<experiments, ids_by_session>>
              ELSE /\ experiments' =
                         IF ok
                         THEN inmemory_upsert_experiment(
                                 experiments, task.experiment_id, task.session_id,
                                 "comparing", "result", Keep, Keep)
                         ELSE inmemory_upsert_experiment(
                                 experiments, task.experiment_id, task.session_id,
                                 "promoted", Keep, Keep, Keep)
                   /\ ids_by_session' = index_after_upsert(
                                            ids_by_session, task.experiment_id,
                                            task.session_id)
           /\ IF ok
              THEN IF task.experiment_id = "none" THEN UNCHANGED bus_vars
                   ELSE bus_publish_seq(task.session_id,
                                        <<(<<"hypothesis_experiment_updated", "">>)>>)
              ELSE bus_publish(task.session_id,
                               raw_event("swarm_error", task.session_id, event_seq + 1))
    /\ rerun_tasks' = [rerun_tasks EXCEPT ![t] = NoTask]
    /\ UNCHANGED <<compare_inflight, lifecycle_metrics, response, created_status,
                   handled>>

(***************************************************************************)
(* Sliding-window rate limiter of POST /api/swarm                          *)
(***************************************************************************)
\* the entries of a timestamp list that are newer than now - window
prune(timestamps, time) ==
    SelectSeq(timestamps, LAMBDA t : t > time - RateLimitWindow)

\* a limit test that lets one more request through
rate_exceeded_above_limit(timestamps) == Len(timestamps) > RateLimitRequests

\* len(timestamps) >= max_requests
rate_exceeded(timestamps) == Len(timestamps) >= RateLimitRequests

\* _check_rate_limit: the new list of the session and the returned flag
check_rate_limit(log, session_id, time) ==
    LET timestamps == prune(log[session_id], time)
    IN  IF rate_exceeded(timestamps)
        THEN [log |-> [log EXCEPT ![session_id] = timestamps], within |-> FALSE]
        ELSE [log |-> [log EXCEPT ![session_id] = Append(timestamps, time)],
              within |-> TRUE]

RateInit ==
    /\ rate_limit_log = [s \in Sessions |-> <<>>]
    /\ monotonic = 0
    /\ rate_accepted = [s \in Sessions |-> <<>>]
    /\ start_response = [session_id |-> "none", status |-> "none"]

\* POST /api/swarm: 429 when the limiter refuses, otherwise the run is
\* started as a background task and the request returns "started"
start_swarm(session_id) ==
    /\ LET r == check_rate_limit(rate_limit_log, session_id, monotonic)
       IN  /\ rate_limit_log' = r.log
           /\ IF r.within
              THEN /\ rate_accepted' = [rate_accepted EXCEPT ![session_id] =
                                           Append(@, monotonic)]
                   /\ start_response' = [session_id |-> session_id, status |-> "started"]
              ELSE /\ UNCHANGED rate_accepted
                   /\ start_response' = [session_id |-> session_id, status |-> "429"]
    /\ UNCHANGED monotonic

\* time passes
clock_tick ==
    /\ monotonic < MaxClock
    /\ monotonic' = monotonic + 1
    /\ UNCHANGED <<rate_limit_log, rate_accepted, start_response>>

(***************************************************************************)
(* WebSocket endpoint /ws/{session_id}                                     *)
(***************************************************************************)
Connections == {"c1", "c2"}

\* the HMAC digest of the configured secret, a wrong digest, and no token
ExpectedToken == "hmac"
Tokens == {ExpectedToken, "wrong", ""}

\* a token check that lets every token through
verify_token_any(token) == TRUE

\* verify_token: the token equals the expected digest
verify_token(token) == token = ExpectedToken

\* a cancel that leaves the task running
task_cancel_ignored(state) == state

\* Task.cancel(): a running task is cancelled, a finished one stays finished
task_cancel(state) == IF state = "running" THEN "cancelled" ELSE state

WsInit ==
    /\ ws_pc = [c \in Connections |-> "idle"]
    /\ ws_session = [c \in Connections |-> "none"]
    /\ ws_accepted = [c \in Connections |-> FALSE]
    /\ ws_queue = [c \in Connections |-> 0]
    /\ ws_close_code = [c \in Connections |-> 0]
    /\ ws_sent = [c \in Connections |-> 0]
    /\ heartbeat_task = [c \in Connections |-> "none"]
    /\ drain_task = [c \in Connections |-> "none"]

\* the handler up to its first wait on the queue: an invalid token closes
\* with 4001 and returns; otherwise accept, subscribe, start both helpers
ws_connect(c, session_id, token) ==
    /\ ws_pc[c] = "idle"
    /\ ws_session' = [ws_session EXCEPT ![c] = session_id]
    /\ IF ~verify_token(token)
       THEN /\ ws_close_code' = [ws_close_code EXCEPT ![c] = 4001]
            /\ ws_pc' = [ws_pc EXCEPT ![c] = "closed"]
            /\ UNCHANGED <<ws_accepted, ws_queue, heartbeat_task, drain_task,
                           bus_vars>>
       ELSE /\ ws_accepted' = [ws_accepted EXCEPT ![c] = TRUE]
            /\ subscribe(session_id)
            /\ ws_queue' = [ws_queue EXCEPT ![c] = Cardinality(created_queues) + 1]
            /\ heartbeat_task' = [heartbeat_task EXCEPT ![c] = "running"]
            /\ drain_task' = [drain_task EXCEPT ![c] = "running"]
            /\ ws_pc' = [ws_pc EXCEPT ![c] = "waiting"]
            /\ UNCHANGED ws_close_code
    /\ UNCHANGED ws_sent

\* wait_for(queue.get()) returns the next event
ws_get(c) ==
    /\ ws_pc[c] = "waiting"
    /\ queue_get(ws_queue[c])
    /\ ws_pc' = [ws_pc EXCEPT ![c] = "sending"]
    /\ UNCHANGED <<ws_session, ws_accepted, ws_queue, ws_close_code, ws_sent,
                   heartbeat_task, drain_task>>

\* the except branches and the finally block: an error frame and a close
\* code for timeout and unexpected error, then both helpers are cancelled
\* and the queue is unsubscribed
ws_exit(c, code) ==
    /\ ws_close_code' = [ws_close_code EXCEPT ![c] = code]
    /\ heartbeat_task' = [heartbeat_task EXCEPT ![c] = task_cancel(@)]
    /\ drain_task' = [drain_task EXCEPT ![c] = task_cancel(@)]
    /\ unsubscribe(ws_session[c], ws_queue[c])
    /\ ws_pc' = [ws_pc EXCEPT ![c] = "closed"]
    /\ UNCHANGED <<ws_session, ws_accepted, ws_queue, ws_sent>>

\* websocket.send_json(event): sent, or WebSocketDisconnect, or another
\* exception
ws_send(c, outcome) ==
    /\ ws_pc[c] = "sending"
    /\ CASE outcome = "sent" ->
              /\ ws_sent' = [ws_sent EXCEPT ![c] = @ + 1]
              /\ ws_pc' = [ws_pc EXCEPT ![c] = "waiting"]
              /\ UNCHANGED <<ws_session, ws_accepted, ws_queue, ws_close_code,
                             heartbeat_task, drain_task, bus_vars>>
         [] outcome = "disconnect" -> ws_exit(c, 0)
         [] outcome = "error" -> ws_exit(c, 4003)

\* no event for 300 seconds: asyncio.TimeoutError
ws_idle_timeout(c) ==
    /\ ws_pc[c] = "waiting"
    /\ queues[ws_queue[c]] = <<>>
    /\ ws_exit(c, 4002)

\* the handler task itself is cancelled (server shutdown): only finally runs
ws_cancelled(c) ==
    /\ ws_pc[c] \in {"waiting", "sending"}
    /\ ws_exit(c, 0)

\* send_heartbeat breaks out of its loop when a ping cannot be sent
heartbeat_break(c) ==
    /\ heartbeat_task[c] = "running"
    /\ heartbeat_task' = [heartbeat_task EXCEPT ![c] = "finished"]
    /\ UNCHANGED <<ws_pc, ws_session, ws_accepted, ws_queue, ws_close_code,
                   ws_sent, drain_task, bus_vars>>

\* drain_client_messages returns when receive_text raises
drain_return(c) ==
    /\ drain_task[c] = "running"
    /\ drain_task' = [drain_task EXCEPT ![c] = "finished"]
    /\ UNCHANGED <<ws_pc, ws_session, ws_accepted, ws_queue, ws_close_code,
                   ws_sent, heartbeat_task, bus_vars>>

(***************************************************************************)
(* Change listeners of the reasoning graph                                 *)
(***************************************************************************)
Listeners == {1, 2}

\* the nodes and the session the notified mutations are drawn from
NotifyNodes == {"n1", "n2"}
NotifySessions == {"sA"}

\* what a listener call can end with: it returns, it raises an Exception,
\* or the calling task is cancelled while it waits for the listener
ListenerOutcomes == {"returns", "Exception", "CancelledError"}

\* a clause that catches nothing
caught_nothing(outcome) == FALSE

\* except Exception: catches Exception; CancelledError is a BaseException
caught(outcome) == outcome = "Exception"

ListenerInit ==
    /\ listeners = 0
    /\ notify_index = [w \in Writers |-> 0]
    /\ listener_log = [l \in Listeners |-> <<>>]
    /\ applied_count = 0
    /\ writer_seq = [w \in Writers |-> 0]
    /\ notified = [w \in Writers |-> {}]
    /\ listener_raised = [w \in Writers |-> {}]

\* on_change: the callback is appended to the list
on_change ==
    /\ listeners < Cardinality(Listeners)
    /\ listeners' = listeners + 1
    /\ UNCHANGED <<notify_index, listener_log, applied_count, writer_seq,
                   notified, listener_raised, graph_vars>>

\* the start of _notify for the mutation writer w has just applied
notify_begin(w) ==
    /\ applied_count' = applied_count + 1
    /\ writer_seq' = [writer_seq EXCEPT ![w] = applied_count + 1]
    /\ notify_index' = [notify_index EXCEPT ![w] = 0]
    /\ notified' = [notified EXCEPT ![w] = {}]
    /\ listener_raised' = [listener_raised EXCEPT ![w] = {}]
    /\ UNCHANGED <<listeners, listener_log>>

\* add_node up to its first await inside _notify
add_node_notifying(w, node_id, session_id) ==
    /\ applied_count < MaxMutations
    /\ add_node(w, node_id, session_id)
    /\ notify_begin(w)

\* add_edge up to its first await inside _notify, or up to CycleDetected
add_edge_notifying(w, source_id, target_id) ==
    /\ applied_count < MaxMutations
    /\ add_edge(w, source_id, target_id)
    /\ IF writer_result'[w] = "CycleDetected"
       THEN UNCHANGED listener_vars
       ELSE notify_begin(w)

\* the loop of _notify reaches the next listener and awaits it
listener_call(w) ==
    /\ writer_pc[w] = "notify"
    /\ notify_index[w] < listeners
    /\ LET l == notify_index[w] + 1
       IN  /\ listener_log' = [listener_log EXCEPT ![l] = Append(@, writer_seq[w])]
           /\ notified' = [notified EXCEPT ![w] = @ \cup {l}]
    /\ writer_pc' = [writer_pc EXCEPT ![w] = "in_listener"]
    /\ UNCHANGED <<graph_nodes, graph_edges, graph_lock, writer_op, writer_result,
                   notifications, listeners, notify_index, applied_count,
                   writer_seq, listener_raised>>

\* the awaited listener is done: a caught exception is logged and the loop
\* goes on; anything else leaves _notify and the lock block
listener_done(w, outcome) ==
    /\ writer_pc[w] = "in_listener"
    /\ IF outcome = "returns" \/ caught(outcome)
       THEN /\ notify_index' = [notify_index EXCEPT ![w] = @ + 1]
            /\ writer_pc' = [writer_pc EXCEPT ![w] = "notify"]
            /\ UNCHANGED <<graph_lock, writer_result, writer_op>>
       ELSE /\ graph_lock' = "free"
            /\ writer_pc' = [writer_pc EXCEPT ![w] = "idle"]
            /\ writer_result' = [writer_result EXCEPT ![w] = outcome]
            /\ writer_op' = [writer_op EXCEPT ![w] = NoOp]
            /\ UNCHANGED notify_index
    /\ listener_raised' = [listener_raised EXCEPT ![w] =
           IF outcome = "Exception" THEN @ \cup {notify_index[w] + 1} ELSE @]
    /\ UNCHANGED <<graph_nodes, graph_edges, notifications, listeners,
                   listener_log, applied_count, writer_seq, notified>>

\* the loop of _notify is over: the lock is released and the call returns
notify_return(w) ==
    /\ writer_pc[w] = "notify"
    /\ notify_index[w] >= listeners
    /\ graph_lock' = "free"
    /\ writer_pc' = [writer_pc EXCEPT ![w] = "idle"]
    /\ writer_result' = [writer_result EXCEPT ![w] = "ok"]
    /\ writer_op' = [writer_op EXCEPT ![w] = NoOp]
    /\ UNCHANGED <<graph_nodes, graph_edges, notifications, listener_vars>>

(***************************************************************************)
(* Readers, load_snapshot and cleanup_session on the event loop            *)
(***************************************************************************)
\* the nodes that are written and read while readers are observed
SnapshotNodes == {"n1", "n2"}

\* snapshots as to_snapshot exports them: nodes of one session and edges
\* between those nodes
Snapshots ==
    {[session_id |-> s, nodes |-> ns, edges |-> es] :
        s \in {"sA"}, ns \in SUBSET SnapshotNodes \ {{}},
        es \in SUBSET {<<"n1", "n2">>}} \ 
    {sn \in [session_id : Sessions, nodes : SUBSET SnapshotNodes,
             edges : SUBSET {<<"n1", "n2">>}] :
        \E e \in sn.edges : e[1] \notin sn.nodes \/ e[2] \notin sn.nodes}

ReadKinds == {"get_session_nodes", "get_challenges_for", "to_snapshot"}
ReadArgs == Sessions \cup NodeIds
NoRead == [kind |-> "none", arg |-> "none", view |-> {}]

\* a scheduler that may switch tasks after every statement
awaits_at_every_step(pc) == TRUE

\* the positions at which a mutating call is suspended in an await (the
\* listener call inside _notify) or is over; the loops of load_snapshot and
\* cleanup_session contain no await
awaits_at(pc) == pc \in {"idle", "notify"}

\* who runs next on the event loop after task w has reached position pc
scheduled(w, pc) == IF awaits_at(pc) THEN "none" ELSE w

\* the first loop of load_snapshot
load_nodes_effect(nodes, snapshot) ==
    [n \in NodeIds |-> IF n \in snapshot.nodes THEN snapshot.session_id ELSE nodes[n]]

\* the second loop of load_snapshot; nx creates missing endpoints bare
load_edges_effect(nodes, edges, snapshot) ==
    [nodes |-> [n \in NodeIds |->
                   IF nodes[n] = Absent /\ \E e \in snapshot.edges : n \in {e[1], e[2]}
                   THEN Bare ELSE nodes[n]],
     edges |-> edges \cup snapshot.edges]

\* nx.DiGraph.remove_node: the node and its edges go
remove_node_effect(nodes, edges, node_id) ==
    [nodes |-> [nodes EXCEPT ![node_id] = Absent],
     edges |-> {e \in edges : e[1] # node_id /\ e[2] # node_id}]

\* the session filter of get_session_nodes, to_snapshot and cleanup_session
session_node_ids(nodes, session_id) == {n \in NodeIds : nodes[n] = session_id}

\* what a read returns for a graph
read_view(kind, arg, nodes, edges) ==
    CASE kind = "get_session_nodes" -> session_node_ids(nodes, arg)
      [] kind = "get_challenges_for" ->
            IF arg \notin NodeIds \/ nodes[arg] = Absent THEN {}
            ELSE {<<e[1], nodes[e[1]]>> : e \in {x \in edges : x[2] = arg}}
      [] kind = "to_snapshot" ->
            {[nodes |-> session_node_ids(nodes, arg),
              edges |-> {e \in edges : /\ e[1] \in session_node_ids(nodes, arg)
                                        /\ e[2] \in session_node_ids(nodes, arg)}]}

ReadInit ==
    /\ running = "none"
    /\ pending_snapshot = [w \in Writers |-> "none"]
    /\ to_remove = [w \in Writers |-> {}]
    /\ last_read = NoRead
    /\ graph_history = {[nodes |-> [n \in NodeIds |-> Absent], edges |-> {}]}
    /\ graph_ops = 0

\* the graph state after a mutation is over
mutation_done ==
    graph_history' = graph_history \cup {[nodes |-> graph_nodes', edges |-> graph_edges']}

\* a task may take a step when the event loop is free or it is running
may_run(w) == running \in {"none", w}

\* add_node on the event loop: the graph change, then the await in _notify
add_node_task(w, node_id, session_id) ==
    /\ may_run(w)
    /\ graph_ops < MaxGraphOps
    /\ add_node(w, node_id, session_id)
    /\ running' = scheduled(w, writer_pc'[w])
    /\ mutation_done
    /\ graph_ops' = graph_ops + 1
    /\ last_read' = NoRead
    /\ UNCHANGED <<pending_snapshot, to_remove>>

\* add_edge on the event loop
add_edge_task(w, source_id, target_id) ==
    /\ may_run(w)
    /\ graph_ops < MaxGraphOps
    /\ add_edge(w, source_id, target_id)
    /\ running' = scheduled(w, writer_pc'[w])
    /\ mutation_done
    /\ graph_ops' = graph_ops + 1
    /\ last_read' = NoRead
    /\ UNCHANGED <<pending_snapshot, to_remove>>

\* the listener returns and add_node or add_edge leaves the lock block
notify_task(w) ==
    /\ may_run(w)
    /\ notify(w)
    /\ running' = scheduled(w, writer_pc'[w])
    /\ last_read' = NoRead
    /\ UNCHANGED <<pending_snapshot, to_remove, graph_history, graph_ops>>

\* load_snapshot: the lock is taken and the nodes are added
load_snapshot_nodes(w, snapshot) ==
    /\ may_run(w)
    /\ graph_ops < MaxGraphOps
    /\ writer_pc[w] = "idle"
    /\ lock_free(graph_lock)
    /\ graph_lock' = w
    /\ graph_nodes' = load_nodes_effect(graph_nodes, snapshot)
    /\ pending_snapshot' = [pending_snapshot EXCEPT ![w] = snapshot]
    /\ writer_pc' = [writer_pc EXCEPT ![w] = "load_edges"]
    /\ running' = scheduled(w, "load_edges")
    /\ graph_ops' = graph_ops + 1
    /\ UNCHANGED <<graph_edges, writer_op, writer_result, notifications,
                   to_remove, graph_history>>
    /\ last_read' = NoRead

\* load_snapshot: the edges are added, the lock is released
load_snapshot_edges(w) ==
    /\ may_run(w)
    /\ writer_pc[w] = "load_edges"
    /\ LET r == load_edges_effect(graph_nodes, graph_edges, pending_snapshot[w])
       IN  /\ graph_nodes' = r.nodes
           /\ graph_edges' = r.edges
    /\ graph_lock' = "free"
    /\ pending_snapshot' = [pending_snapshot EXCEPT ![w] = "none"]
    /\ writer_pc' = [writer_pc EXCEPT ![w] = "idle"]
    /\ writer_result' = [writer_result EXCEPT ![w] = "ok"]
    /\ running' = scheduled(w, "idle")
    /\ mutation_done
    /\ last_read' = NoRead
    /\ UNCHANGED <<writer_op, notifications, to_remove, graph_ops>>

\* cleanup_session: the lock is taken and the nodes of the session are listed
cleanup_session_list(w, session_id) ==
    /\ may_run(w)
    /\ graph_ops < MaxGraphOps
    /\ writer_pc[w] = "idle"
    /\ lock_free(graph_lock)
    /\ LET ids == session_node_ids(graph_nodes, session_id)
           pc == IF ids = {} THEN "idle" ELSE "cleanup_loop"
       IN  /\ to_remove' = [to_remove EXCEPT ![w] = ids]
           /\ graph_lock' = IF ids = {} THEN "free" ELSE w
           /\ writer_pc' = [writer_pc EXCEPT ![w] = pc]
           /\ writer_result' = [writer_result EXCEPT ![w] =
                                   IF ids = {} THEN "ok" ELSE "none"]
           /\ running' = scheduled(w, pc)
    /\ graph_ops' = graph_ops + 1
    /\ UNCHANGED <<graph_nodes, graph_edges, writer_op, notifications,
                   pending_snapshot, graph_history>>
    /\ last_read' = NoRead

\* cleanup_session: one listed node is removed; after the last one the lock
\* is released
cleanup_session_remove(w) ==
    /\ may_run(w)
    /\ writer_pc[w] = "cleanup_loop"
    /\ LET n == CHOOSE x \in to_remove[w] : TRUE
           r == remove_node_effect(graph_nodes, graph_edges, n)
           rest == to_remove[w] \ {n}
           pc == IF rest = {} THEN "idle" ELSE "cleanup_loop"
       IN  /\ graph_nodes' = r.nodes
           /\ graph_edges' = r.edges
           /\ to_remove' = [to_remove EXCEPT ![w] = rest]
           /\ graph_lock' = IF rest = {} THEN "free" ELSE w
           /\ writer_pc' = [writer_pc EXCEPT ![w] = pc]
           /\ writer_result' = [writer_result EXCEPT ![w] =
                                   IF rest = {} THEN "ok" ELSE "none"]
           /\ running' = scheduled(w, pc)
           /\ IF rest = {} THEN mutation_done ELSE UNCHANGED graph_history
    /\ last_read' = NoRead
    /\ UNCHANGED <<writer_op, notifications, pending_snapshot, graph_ops>>

\* a reader: no lock is taken and nothing is awaited before the view is
\* returned
read(kind, arg) ==
    /\ running = "none"
    /\ last_read' = [kind |-> kind, arg |-> arg,
                     view |-> read_view(kind, arg, graph_nodes, graph_edges)]
    /\ UNCHANGED <<graph_vars, running, pending_snapshot, to_remove,
                   graph_history, graph_ops>>

(***************************************************************************)
(* Reasoning rehydration: selection of the context candidates             *)
(***************************************************************************)
\* a retrieved row as far as the selection reads it: session_id ("" when the
\* row has none), the text ("" when it has none; a text stands for its own
\* hash) and the score
RowSessions == Sessions \cup {""}
RowTexts == {"", "t1", "t2"}
RowScores == {1, 2}
Rows == [session_id : RowSessions, text : RowTexts, score : RowScores]
RowLists == UNION {[1..n -> Rows] : n \in 0..MaxRows}

\* the candidate built from a row: str(row.get("session_id") or "unknown")
candidate_of(row) ==
    [session_id |-> IF row.session_id = "" THEN "unknown" ELSE row.session_id,
     text_hash |-> row.text, score |-> row.score]

\* the loops over the matches: rows without text are skipped
RECURSIVE build_candidates(_)
build_candidates(rows) ==
    IF rows = <<>> THEN <<>>
    ELSE IF Head(rows).text = "" THEN build_candidates(Tail(rows))
    ELSE <<candidate_of(Head(rows))>> \o build_candidates(Tail(rows))

same_key(a, b) == a.session_id = b.session_id /\ a.text_hash = b.text_hash

\* deduped[key] = candidate when the key is new or the score is higher; a
\* dict keeps the position of the first insertion of a key
RECURSIVE dedupe(_, _)
dedupe(done, rest) ==
    IF rest = <<>> THEN done
    ELSE LET c == Head(rest)
             hit == {i \in DOMAIN done : same_key(done[i], c)}
         IN  IF hit = {} THEN dedupe(Append(done, c), Tail(rest))
             ELSE LET i == CHOOSE x \in hit : TRUE
                  IN  IF c.score > done[i].score
                      THEN dedupe([done EXCEPT ![i] = c], Tail(rest))
                      ELSE dedupe(done, Tail(rest))

\* insertion into a list sorted by descending score, behind equal scores
RECURSIVE insert_ranked(_, _)
insert_ranked(sorted, c) ==
    IF sorted = <<>> THEN <<c>>
    ELSE IF Head(sorted).score >= c.score
         THEN <<Head(sorted)>> \o insert_ranked(Tail(sorted), c)
         ELSE <<c>> \o sorted

\* sorted(..., key=score, reverse=True): stable, highest score first
RECURSIVE rank(_, _)
rank(sorted, items) ==
    IF items = <<>> THEN sorted
    ELSE rank(insert_ranked(sorted, Head(items)), Tail(items))

\* seq[:k]
take(seq, k) == SubSeq(seq, 1, IF Len(seq) < k THEN Len(seq) ELSE k)

\* a selection that takes the best candidates whatever their session
select_rows_any_session(ranked, session_id) == take(ranked, TopK)

\* (cross_session_ranked or ranked)[:4]
select_rows(ranked, session_id) ==
    LET cross_session_ranked == SelectSeq(ranked, LAMBDA c : c.session_id # session_id)
    IN  take(IF cross_session_ranked # <<>> THEN cross_session_ranked ELSE ranked, TopK)

RehydrationInit ==
    /\ rehydration_pc = "idle"
    /\ rehydration_session = "none"
    /\ candidates = <<>>
    /\ selected_rows = <<>>

\* the semantic search returns rows; the candidates are built from them
search_returns(session_id, rows) ==
    /\ rehydration_pc = "idle"
    /\ rehydration_pc' = "searched"
    /\ rehydration_session' = session_id
    /\ candidates' = build_candidates(rows)
    /\ UNCHANGED selected_rows

\* the candidates are deduplicated, ranked and selected
select_candidates ==
    /\ rehydration_pc = "searched"
    /\ rehydration_pc' = "selected"
    /\ selected_rows' = select_rows(rank(<<>>, dedupe(<<>>, candidates)),
                                    rehydration_session)
    /\ UNCHANGED <<rehydration_session, candidates>>

(***************************************************************************)
(* Hypothesis lifecycle with the external store configured                 *)
(***************************************************************************)
\* a row of either store, as far as the handlers read it
NoRow == [status |-> "none", retention_decision |-> "none"]

\* the lookup of compare and retain: the external row when the call
\* succeeds and finds one, otherwise the in-memory row
fetch_experiment(db_row, mem_row, db_up) ==
    IF db_up /\ db_row # NoRow THEN db_row ELSE mem_row

\* _merge_experiments_for_response for one id: the external row replaces
\* the in-memory row
merge_experiments_for_response(db_row, mem_row, db_up) ==
    IF db_up /\ db_row # NoRow THEN db_row ELSE mem_row

MirrorInit ==
    /\ db_experiments = [e \in ExpIds |-> NoRow]
    /\ mem_experiments = [e \in ExpIds |-> NoRow]
    /\ mirror_metrics = [retain |-> 0, defer |-> 0, archive |-> 0]
    /\ mirror_response = [handler |-> "none", experiment_id |-> "none",
                          acted_on |-> "none", mode |-> "none"]
    /\ mirror_handled = 0

\* POST checkpoint with verdict explore and a summary, no experiment_id, no
\* rerun: the row is created as promoted in the external store (when the
\* call succeeds) and in memory, then set to checkpointed in memory only
mirror_checkpoint(session_id, node_id, db_up) ==
    /\ mirror_handled < MaxMirrorRequests
    /\ lock_free(graph_lock)
    /\ \E n \in NodeIds : n # node_id /\ graph_nodes[n] = Absent
    /\ \E e \in ExpIds : db_experiments[e] = NoRow /\ mem_experiments[e] = NoRow
    /\ LET annotation == CHOOSE n \in NodeIds : n # node_id /\ graph_nodes[n] = Absent
           with_node == add_node_effect(graph_nodes, annotation, session_id)
           edge == add_edge_effect(with_node, graph_edges, annotation, node_id)
           experiment_id == CHOOSE e \in ExpIds :
                               db_experiments[e] = NoRow /\ mem_experiments[e] = NoRow
       IN  /\ graph_nodes' = edge.nodes
           /\ graph_edges' = edge.edges
           /\ notifications' = notifications \o
                 <<[kind |-> "node_added", id |-> annotation, session_id |-> session_id]>> \o
                 (IF edge.raised THEN <<>>
                  ELSE <<[kind |-> "edge_added", source_id |-> annotation,
                          target_id |-> node_id]>>)
           /\ UNCHANGED <<graph_lock, writer_pc, writer_op, writer_result>>
           /\ IF edge.raised
              THEN /\ mirror_response' = [handler |-> "checkpoint",
                                          experiment_id |-> "none",
                                          acted_on |-> "none", mode |-> "error"]
                   /\ UNCHANGED <<db_experiments, mem_experiments, bus_vars>>
              ELSE /\ db_experiments' =
                         IF db_up
                         THEN [db_experiments EXCEPT ![experiment_id] =
                                  [status |-> "promoted", retention_decision |-> "none"]]
                         ELSE db_experiments
                   /\ mem_experiments' =
                         [mem_experiments EXCEPT ![experiment_id] =
                             [status |-> "checkpointed", retention_decision |-> "none"]]
                   /\ bus_publish_seq(session_id,
                         <<(<<"human_checkpoint", "">>),
                           (<<"hypothesis_experiment_updated", "">>)>>)
                   /\ mirror_response' = [handler |-> "checkpoint",
                                          experiment_id |-> experiment_id,
                                          acted_on |-> "none", mode |-> "annotated"]
    /\ mirror_handled' = mirror_handled + 1
    /\ UNCHANGED mirror_metrics

\* POST retain with the external store configured; db_up tells whether the
\* calls to it succeed during this request
mirror_retain(experiment_id, session_id, decision, db_up) ==
    /\ mirror_handled < MaxMirrorRequests
    /\ LET experiment == fetch_experiment(db_experiments[experiment_id],
                                          mem_experiments[experiment_id], db_up)
           current_status == normalize_status(experiment.status, "promoted")
           next_status == IF decision = "archive" THEN "archived"
                          ELSE IF decision = "defer" THEN "deferred"
                          ELSE "retained"
           answer(mode) ==
               mirror_response' = [handler |-> "retain",
                                   experiment_id |-> experiment_id,
                                   acted_on |-> current_status, mode |-> mode]
           quiet(mode) ==
               /\ answer(mode)
               /\ UNCHANGED <<db_experiments, mem_experiments, mirror_metrics, bus_vars>>
       IN  IF experiment = NoRow
           THEN /\ mirror_response' = [handler |-> "retain",
                                       experiment_id |-> experiment_id,
                                       acted_on |-> "none", mode |-> "404"]
                /\ UNCHANGED <<db_experiments, mem_experiments, mirror_metrics, bus_vars>>
           ELSE IF /\ current_status \in FINAL_LIFECYCLE_STATES
                   /\ experiment.retention_decision = decision
           THEN quiet("unchanged")
           ELSE IF ~can_transition(current_status, next_status) THEN quiet("409")
           ELSE /\ db_experiments' =
                      IF db_up /\ db_experiments[experiment_id] # NoRow
                      THEN [db_experiments EXCEPT ![experiment_id] =
                               [status |-> next_status, retention_decision |-> decision]]
                      ELSE db_experiments
                /\ mem_experiments' =
                      [mem_experiments EXCEPT ![experiment_id] =
                          [status |-> next_status, retention_decision |-> decision]]
                /\ mirror_metrics' = [mirror_metrics EXCEPT ![decision] = @ + 1]
                /\ bus_publish_seq(session_id,
                                   <<(<<"hypothesis_experiment_updated", "">>)>>)
                /\ answer("updated")
    /\ mirror_handled' = mirror_handled + 1
    /\ UNCHANGED graph_vars

\* GET experiments of a session, for one experiment id of the session
mirror_list(experiment_id, db_up) ==
    /\ mirror_handled < MaxMirrorRequests
    /\ LET row == merge_experiments_for_response(db_experiments[experiment_id],
                                                 mem_experiments[experiment_id], db_up)
       IN  mirror_response' = [handler |-> "list", experiment_id |-> experiment_id,
                               acted_on |-> normalize_status(row.status, "promoted"),
                               mode |-> IF row = NoRow THEN "empty" ELSE "listed"]
    /\ mirror_handled' = mirror_handled + 1
    /\ UNCHANGED <<db_experiments, mem_experiments, mirror_metrics, graph_vars, bus_vars>>

(***************************************************************************)
(* Snapshot round trip                                                     *)
(***************************************************************************)
\* instants a node can be created at
Instants == {"t1", "t2"}
\* the keys of node.model_dump() that the model keeps; the other fields are
\* strings, numbers and lists, which pass like content
AttrKeys == {"id", "session_id", "content", "created_at"}

\* a node without attributes (an endpoint that nx.add_edge created)
NoAttrs == [k \in {} |-> [type |-> "none", value |-> "none"]]

\* node.model_dump(): created_at is a datetime object
node_model_dump(node_id, session_id, created_at) ==
    [k \in AttrKeys |->
        CASE k = "id" -> [type |-> "str", value |-> node_id]
          [] k = "session_id" -> [type |-> "str", value |-> session_id]
          [] k = "content" -> [type |-> "str", value |-> "text"]
          [] k = "created_at" -> [type |-> "datetime", value |-> created_at]]

\* datetime.isoformat(): the text of the instant
isoformat(v) == [type |-> "str", value |-> v.value]

\* dict.pop(key): the mapping without the key
without_key(data, key) == [k \in (DOMAIN data) \ {key} |-> data[k]]

\* the inner loop of to_snapshot: datetime values become their ISO text
serializable(data) ==
    [k \in DOMAIN data |-> IF data[k].type = "datetime" THEN isoformat(data[k]) ELSE data[k]]

\* {"id": nid, **serializable}
snapshot_node(node_id, data) ==
    [k \in (DOMAIN data) \cup {"id"} |->
        IF k \in DOMAIN data THEN serializable(data)[k]
        ELSE [type |-> "str", value |-> node_id]]

NoSnapshot == [session_id |-> "none", nodes |-> <<>>, edges |-> {}]

\* to_snapshot: the nodes whose session_id attribute is the session, and
\* the edges between them
to_snapshot(nodes, attrs, edges, session_id) ==
    LET node_ids == session_node_ids(nodes, session_id)
    IN  [session_id |-> session_id,
         nodes |-> [n \in node_ids |-> snapshot_node(n, attrs[n])],
         edges |-> {e \in edges : e[1] \in node_ids /\ e[2] \in node_ids}]

\* load_snapshot into a graph without nodes: every node is added with the
\* entry of the snapshot less its id key, then every edge is added
load_snapshot(snapshot) ==
    LET loaded == DOMAIN snapshot.nodes
        data(n) == without_key(snapshot.nodes[n], "id")
        after_nodes == [n \in NodeIds |->
                           IF n \notin loaded THEN Absent
                           ELSE IF "session_id" \in DOMAIN data(n)
                           THEN data(n)["session_id"].value ELSE Bare]
    IN  [nodes |-> [n \in NodeIds |->
                       IF after_nodes[n] = Absent /\ \E e \in snapshot.edges : n \in {e[1], e[2]}
                       THEN Bare ELSE after_nodes[n]],
         attrs |-> [n \in NodeIds |-> IF n \in loaded THEN data(n) ELSE NoAttrs],
         edges |-> snapshot.edges,
         count |-> Cardinality(loaded)]

SnapshotInit ==
    /\ snap_nodes = [n \in NodeIds |-> Absent]
    /\ snap_attrs = [n \in NodeIds |-> NoAttrs]
    /\ snap_edges = {}
    /\ snap_pc = "build"
    /\ exported = NoSnapshot
    /\ new_graph = [nodes |-> [n \in NodeIds |-> Absent],
                    attrs |-> [n \in NodeIds |-> NoAttrs],
                    edges |-> {}, count |-> 0]

\* add_node on the source graph
snap_add_node(node_id, session_id, created_at) ==
    /\ snap_pc = "build"
    /\ snap_nodes[node_id] = Absent
    /\ snap_nodes' = add_node_effect(snap_nodes, node_id, session_id)
    /\ snap_attrs' = [snap_attrs EXCEPT ![node_id] = node_model_dump(node_id, session_id, created_at)]
    /\ UNCHANGED <<snap_edges, snap_pc, exported, new_graph>>

\* add_edge on the source graph
snap_add_edge(source_id, target_id) ==
    /\ snap_pc = "build"
    /\ <<source_id, target_id>> \notin snap_edges
    /\ LET r == add_edge_effect(snap_nodes, snap_edges, source_id, target_id)
       IN  /\ ~r.raised
           /\ snap_nodes' = r.nodes
           /\ snap_edges' = r.edges
    /\ UNCHANGED <<snap_attrs, snap_pc, exported, new_graph>>

\* snapshot = graph.to_snapshot(session_id)
snap_export(session_id) ==
    /\ snap_pc = "build"
    /\ exported' = to_snapshot(snap_nodes, snap_attrs, snap_edges, session_id)
    /\ snap_pc' = "exported"
    /\ UNCHANGED <<snap_nodes, snap_attrs, snap_edges, new_graph>>

\* new_graph = SharedReasoningGraph(); await new_graph.load_snapshot(snapshot)
snap_load ==
    /\ snap_pc = "exported"
    /\ new_graph' = load_snapshot(exported)
    /\ snap_pc' = "loaded"
    /\ UNCHANGED <<snap_nodes, snap_attrs, snap_edges, exported>>

(***************************************************************************)
(* Retry discipline of the persistence operations                          *)
(***************************************************************************)
TRANSIENT_PATTERNS ==
    {"timeout", "timed out", "rate limit", "too many requests",
     "temporarily unavailable", "service unavailable", "connection refused",
     "connection reset", "connection error", "broken pipe", "503", "429"}

PERMANENT_PATTERNS ==
    {"auth", "unauthorized", "forbidden", "not found", "constraint",
     "unique violation", "duplicate key", "invalid", "permission denied"}

\* an error message stands for the set of patterns that occur in its lower
\* case text; the empty set is a message that matches no pattern
ErrorMessages == SUBSET {"auth", "constraint", "timeout", "503"}

\* the decorators in use: max_retries and backoff_delays (in half seconds)
RetryPolicies ==
    {[max_retries |-> 3, backoff_delays |-> <<2, 4, 8>>],
     [max_retries |-> 2, backoff_delays |-> <<1, 2>>]}

\* the outcome of one call of the wrapped function
NoError == {"none"}
AttemptOutcomes == {NoError} \cup ErrorMessages

\* a classification that retries every error
is_transient_always(msg) == TRUE

\* _is_transient: a permanent pattern wins, a transient pattern or no
\* pattern at all means retry
is_transient(msg) ==
    IF \E pattern \in PERMANENT_PATTERNS : pattern \in msg THEN FALSE
    ELSE IF \E pattern \in TRANSIENT_PATTERNS : pattern \in msg THEN TRUE
    ELSE TRUE

\* backoff_delays[min(attempt, len(backoff_delays) - 1)], attempt from 0
backoff_delay(backoff_delays, attempt) ==
    backoff_delays[(IF attempt < Len(backoff_delays) - 1 THEN attempt
                    ELSE Len(backoff_delays) - 1) + 1]

RetryInit ==
    retry = [pc |-> "idle", max_retries |-> 0, backoff_delays |-> <<>>,
             attempt |-> 0, calls |-> 0, errors |-> <<>>, sleeps |-> <<>>,
             raised |-> NoError]

\* a decorated persistence method is called
retry_call(policy) ==
    /\ retry.pc = "idle"
    /\ retry' = [retry EXCEPT !.pc = "calling", !.max_retries = policy.max_retries,
                               !.backoff_delays = policy.backoff_delays]

\* one pass of the loop of the wrapper: the wrapped function is awaited and
\* returns or raises an exception with message outcome
retry_attempt(outcome) ==
    /\ retry.pc = "calling"
    /\ retry.attempt <= retry.max_retries
    /\ LET called == [retry EXCEPT !.calls = @ + 1]
           failed == [called EXCEPT !.errors = Append(@, outcome)]
       IN  retry' =
             IF outcome = NoError THEN [called EXCEPT !.pc = "returned"]
             ELSE IF ~is_transient(outcome)
             THEN [failed EXCEPT !.pc = "raised", !.raised = outcome]
             ELSE IF retry.attempt < retry.max_retries
             THEN [failed EXCEPT !.pc = "sleeping",
                                 !.sleeps = Append(@, backoff_delay(retry.backoff_delays,
                                                                    retry.attempt))]
             ELSE [failed EXCEPT !.pc = "raised", !.raised = outcome]

\* asyncio.sleep(delay) returns and the loop goes to the next attempt
retry_wake ==
    /\ retry.pc = "sleeping"
    /\ retry' = [retry EXCEPT !.pc = "calling", !.attempt = @ + 1]

(***************************************************************************)
(* prune_stale_sessions, the background task of the server                 *)
(***************************************************************************)
\* STALE_SESSION_MAX_AGE, in ticks of the clock
StaleMaxAge == 1

\* the node id that agents use while the reaper is watched
ReaperNodes == {"n1"}

\* EventBus.get_stale_sessions: the sessions whose timestamp is older than
\* max_age_seconds
get_stale_sessions(timestamps, utcnow, max_age_seconds) ==
    {s \in Sessions : timestamps[s] # NoTimestamp /\ utcnow - timestamps[s] > max_age_seconds}

ReaperInit == reaper = [pc |-> "sleeping", stale_ids |-> {}]

\* the body of the loop for every listed session without a suspension:
\* graph.cleanup_session(sid), then bus.cleanup_session(sid)
prune_sessions(stale_ids) ==
    /\ graph_nodes' = [n \in NodeIds |->
                          IF graph_nodes[n] \in stale_ids THEN Absent ELSE graph_nodes[n]]
    /\ graph_edges' = {e \in graph_edges :
                          graph_nodes[e[1]] \notin stale_ids /\ graph_nodes[e[2]] \notin stale_ids}
    /\ subscribers' = [s \in Sessions |-> IF s \in stale_ids THEN <<>> ELSE subscribers[s]]
    /\ drop_counts' = [s \in Sessions |-> IF s \in stale_ids THEN 0 ELSE drop_counts[s]]
    /\ session_timestamps' = [s \in Sessions |->
                                 IF s \in stale_ids THEN NoTimestamp ELSE session_timestamps[s]]
    /\ UNCHANGED <<graph_lock, writer_pc, writer_op, writer_result, notifications>>
    /\ UNCHANGED <<queues, queue_session, now, event_seq, published, delivered>>

\* the sleep of the reaper is over: the stale list is computed; with a free
\* graph lock the listed sessions are pruned at once, otherwise the task
\* waits for the lock with its list
reaper_wake ==
    /\ reaper.pc = "sleeping"
    /\ LET stale_ids == get_stale_sessions(session_timestamps, now, StaleMaxAge)
       IN  /\ stale_ids # {}
           /\ IF lock_free(graph_lock)
              THEN /\ prune_sessions(stale_ids)
                   /\ UNCHANGED reaper
              ELSE /\ reaper' = [pc |-> "waiting", stale_ids |-> stale_ids]
                   /\ UNCHANGED <<graph_vars, bus_vars>>

\* the graph lock was released: the reaper goes through its list
reaper_resume ==
    /\ reaper.pc = "waiting"
    /\ lock_free(graph_lock)
    /\ prune_sessions(reaper.stale_ids)
    /\ reaper' = [pc |-> "sleeping", stale_ids |-> {}]

\* time passes
utcnow_tick ==
    /\ now < MaxClock
    /\ now' = now + 1
    /\ UNCHANGED <<subscribers, queues, queue_session, drop_counts, session_timestamps,
                   event_seq, published, delivered>>

(***************************************************************************)
(* The mutexes of the graph and of the lifecycle service                   *)
(***************************************************************************)
Locks == {"graph", "rate_limit", "inmemory_hypothesis", "lifecycle_metrics", "compare_inflight"}

\* the coroutines that call into the graph and the lifecycle service
Callers == {"k1", "k2"}

acquire(lock) == [do |-> "acquire", lock |-> lock]
release(lock) == [do |-> "release", lock |-> lock]
await_listeners == [do |-> "await", lock |-> "none"]

\* a row of `async with lock:` blocks, one after the other
RECURSIVE critical_sections(_)
critical_sections(locks) ==
    IF locks = <<>> THEN <<>>
    ELSE <<acquire(Head(locks)), release(Head(locks))>> \o critical_sections(Tail(locks))

\* a listener that calls back into the graph
on_graph_change_reentrant == <<"graph">>

\* on_graph_change: the mutexes the registered listener takes (it hands the
\* mutation to the persistence clients and takes none)
on_graph_change == <<>>

\* what a call does with the mutexes, in the order of its code
lock_program(op) ==
    CASE op \in {"add_node", "add_edge"} ->
            <<acquire("graph"), await_listeners>> \o critical_sections(on_graph_change)
                \o <<release("graph")>>
      [] op \in {"add_edge_cycle", "cleanup_session"} -> critical_sections(<<"graph">>)
      [] op = "check_rate_limit" -> critical_sections(<<"rate_limit">>)
      [] op = "compare_hypothesis_experiment" ->
            critical_sections(<<"lifecycle_metrics", "inmemory_hypothesis",
                                "compare_inflight", "inmemory_hypothesis">>)
      [] op = "run_compare" ->
            critical_sections(<<"inmemory_hypothesis", "lifecycle_metrics",
                                "lifecycle_metrics", "compare_inflight">>)

LockOps == {"add_node", "add_edge", "add_edge_cycle", "cleanup_session", "check_rate_limit", "compare_hypothesis_experiment", "run_compare"}

MutexInit ==
    mutex = [owner |-> [l \in Locks |-> "none"],
             waiters |-> [l \in Locks |-> <<>>],
             op |-> [k \in Callers |-> "none"],
             todo |-> [k \in Callers |-> <<>>]]

\* the locks without the caller as owner or waiter
without_caller(m, k) ==
    [m EXCEPT !.owner = [l \in Locks |-> IF m.owner[l] = k THEN "none" ELSE m.owner[l]],
              !.waiters = [l \in Locks |-> SelectSeq(m.waiters[l], LAMBDA x : x # k)]]

\* the call of k goes on with the rest of its program, or returns
proceed(m, k) ==
    IF Tail(m.todo[k]) = <<>>
    THEN [m EXCEPT !.todo[k] = <<>>, !.op[k] = "none"]
    ELSE [m EXCEPT !.todo[k] = Tail(@)]

\* a coroutine calls op
lock_call(k, op) ==
    /\ mutex.todo[k] = <<>>
    /\ mutex' = [mutex EXCEPT !.op[k] = op, !.todo[k] = lock_program(op)]

\* asyncio.Lock.acquire: the lock is taken at once when it is free and nobody
\* waits for it; otherwise the caller joins the waiters
lock_acquire(k) ==
    /\ mutex.todo[k] # <<>>
    /\ Head(mutex.todo[k]).do = "acquire"
    /\ LET l == Head(mutex.todo[k]).lock
       IN  /\ k \notin Range(mutex.waiters[l])
           /\ mutex' = IF mutex.owner[l] = "none" /\ mutex.waiters[l] = <<>>
                       THEN proceed([mutex EXCEPT !.owner[l] = k], k)
                       ELSE [mutex EXCEPT !.waiters[l] = Append(@, k)]

\* asyncio.Lock.release woke the first waiter: it takes the lock
lock_wake(k) ==
    /\ mutex.todo[k] # <<>>
    /\ Head(mutex.todo[k]).do = "acquire"
    /\ LET l == Head(mutex.todo[k]).lock
       IN  /\ mutex.waiters[l] # <<>>
           /\ Head(mutex.waiters[l]) = k
           /\ mutex.owner[l] = "none"
           /\ mutex' = proceed([mutex EXCEPT !.owner[l] = k, !.waiters[l] = Tail(@)], k)

\* _notify inside the graph lock: the listeners return or raise, or the
\* caller is cancelled while it awaits them and leaves the `async with`
lock_await(k, outcome) ==
    /\ mutex.todo[k] # <<>>
    /\ Head(mutex.todo[k]).do = "await"
    /\ mutex' = IF outcome = "cancelled"
                THEN [without_caller(mutex, k) EXCEPT !.todo[k] = <<>>, !.op[k] = "none"]
                ELSE proceed(mutex, k)

\* the end of an `async with` block
lock_release(k) ==
    /\ mutex.todo[k] # <<>>
    /\ Head(mutex.todo[k]).do = "release"
    /\ mutex' = proceed([mutex EXCEPT !.owner[Head(mutex.todo[k]).lock] = "none"], k)

\* an agent is cancelled by its timeout while it waits for the graph lock
lock_cancel(k) ==
    /\ mutex.op[k] \in {"add_node", "add_edge", "add_edge_cycle"}
    /\ \E l \in Locks : k \in Range(mutex.waiters[l])
    /\ mutex' = [without_caller(mutex, k) EXCEPT !.todo[k] = <<>>, !.op[k] = "none"]

GraphNext ==
    /\ \/ \E w \in Writers, n \in NodeIds, s \in Sessions : add_node(w, n, s)
       \/ \E w \in Writers, a \in NodeIds, b \in NodeIds : add_edge(w, a, b)
       \/ \E w \in Writers : notify(w)
    /\ UNCHANGED <<bus_vars, swarm_vars, lifecycle_vars, rate_vars, ws_vars, listener_vars, read_vars, rehydration_vars, mirror_vars, snapshot_vars, retry_vars, mutex_vars, reaper_vars>>

BusNext ==
    /\ \/ \E s \in Sessions : subscribe(s)
       \/ \E s \in Sessions, raw \in BOOLEAN : publish(s, raw)
       \/ \E s \in Sessions, q \in QueueIds :
             (\E i \in DOMAIN subscribers[s] : subscribers[s][i] = q) /\ unsubscribe(s, q)
       \/ \E s \in Sessions : bus_cleanup_session(s)
       \/ \E q \in QueueIds : queue_get(q)
    /\ UNCHANGED <<graph_vars, swarm_vars, lifecycle_vars, rate_vars, ws_vars, listener_vars, read_vars, rehydration_vars, mirror_vars, snapshot_vars, retry_vars, mutex_vars, reaper_vars>>

SwarmNext ==
    /\ \/ \E s \in Sessions, q \in Queries : swarm_run(s, q)
       \/ \E a \in AgentNames, o \in Outcomes : agent_start(a, o)
       \/ \E p \in Plans \cup {<<>>} : maestro_return(p)
       \/ \E a \in AgentNames : agent_finish(a)
       \/ gather_return
       \/ phase2_return
       \/ phase3_return
    /\ UNCHANGED <<graph_vars, lifecycle_vars, rate_vars, ws_vars, listener_vars, read_vars, rehydration_vars, mirror_vars, snapshot_vars, retry_vars, mutex_vars, reaper_vars>>

\* session ids are interchangeable: the first checkpoint that is answered
\* names sA, the later ones name any session
checkpoint_sessions ==
    IF \A s \in Sessions : published[s] = <<>> THEN {"sA"} ELSE Sessions

LifecycleNext ==
    /\ \/ \E s \in checkpoint_sessions, n \in CheckpointTargets, v \in Verdicts, x \in CheckpointTexts,
            e \in ExpIds \cup {"none"} :
             checkpoint_node(s, n, v, x, e) /\ UNCHANGED <<swarm_vars, rate_vars, ws_vars, listener_vars, read_vars, rehydration_vars, mirror_vars, snapshot_vars, retry_vars, mutex_vars, reaper_vars>>
       \/ /\ \E e \in ExpIds \cup {NotAUuid}, f \in BOOLEAN, m \in BOOLEAN, c \in BOOLEAN :
               compare_hypothesis_experiment(e, f, m, c)
          /\ UNCHANGED <<graph_vars, swarm_vars, rate_vars, ws_vars, listener_vars, read_vars, rehydration_vars, mirror_vars, snapshot_vars, retry_vars, mutex_vars, reaper_vars>>
       \/ /\ \E e \in ExpIds, d \in Decisions : retain_hypothesis_experiment(e, d)
          /\ UNCHANGED <<graph_vars, swarm_vars, rate_vars, ws_vars, listener_vars, read_vars, rehydration_vars, mirror_vars, snapshot_vars, retry_vars, mutex_vars, reaper_vars>>
       \/ /\ \E t \in TaskIds : rerun_begin(t)
          /\ UNCHANGED <<graph_vars, swarm_vars, rate_vars, ws_vars, listener_vars, read_vars, rehydration_vars, mirror_vars, snapshot_vars, retry_vars, mutex_vars, reaper_vars>>
       \/ /\ \E t \in TaskIds, ok \in BOOLEAN : run_compare_end(t, ok)
          /\ UNCHANGED <<graph_vars, swarm_vars, rate_vars, ws_vars, listener_vars, read_vars, rehydration_vars, mirror_vars, snapshot_vars, retry_vars, mutex_vars, reaper_vars>>
       \/ /\ \E t \in TaskIds, ok \in BOOLEAN : checkpoint_rerun_end(t, ok)
          /\ UNCHANGED <<graph_vars, swarm_vars, rate_vars, ws_vars, listener_vars, read_vars, rehydration_vars, mirror_vars, snapshot_vars, retry_vars, mutex_vars, reaper_vars>>

RateNext ==
    /\ \/ \E s \in Sessions : start_swarm(s)
       \/ clock_tick
    /\ UNCHANGED <<graph_vars, bus_vars, swarm_vars, lifecycle_vars, ws_vars, listener_vars, read_vars, rehydration_vars, mirror_vars, snapshot_vars, retry_vars, mutex_vars, reaper_vars>>

WsNext ==
    /\ \/ \E c \in Connections, s \in Sessions, token \in Tokens : ws_connect(c, s, token)
       \/ \E c \in Connections : ws_get(c)
       \/ \E c \in Connections, o \in {"sent", "disconnect", "error"} : ws_send(c, o)
       \/ \E c \in Connections : ws_idle_timeout(c)
       \/ \E c \in Connections : ws_cancelled(c)
       \/ \E c \in Connections : heartbeat_break(c)
       \/ \E c \in Connections : drain_return(c)
       \/ \E s \in Sessions : event_seq < MaxWsEvents /\ publish(s, FALSE) /\ UNCHANGED ws_vars
       \/ \E s \in Sessions : bus_cleanup_session(s) /\ UNCHANGED ws_vars
    /\ UNCHANGED <<graph_vars, swarm_vars, lifecycle_vars, rate_vars, listener_vars, read_vars, rehydration_vars, mirror_vars, snapshot_vars, retry_vars, mutex_vars, reaper_vars>>

ListenerNext ==
    /\ \/ on_change
       \/ \E w \in Writers, n \in NotifyNodes, s \in NotifySessions : add_node_notifying(w, n, s)
       \/ \E w \in Writers, a \in NotifyNodes, b \in NotifyNodes : add_edge_notifying(w, a, b)
       \/ \E w \in Writers : listener_call(w)
       \/ \E w \in Writers, o \in ListenerOutcomes : listener_done(w, o)
       \/ \E w \in Writers : notify_return(w)
    /\ UNCHANGED <<bus_vars, swarm_vars, lifecycle_vars, rate_vars, ws_vars, read_vars, rehydration_vars, mirror_vars, snapshot_vars, retry_vars, mutex_vars, reaper_vars>>

ReadNext ==
    /\ \/ \E w \in Writers, n \in NodeIds, s \in Sessions : add_node_task(w, n, s)
       \/ \E w \in Writers, a \in NodeIds, b \in NodeIds : add_edge_task(w, a, b)
       \/ \E w \in Writers : notify_task(w)
       \/ \E w \in Writers, sn \in Snapshots : load_snapshot_nodes(w, sn)
       \/ \E w \in Writers : load_snapshot_edges(w)
       \/ \E w \in Writers, s \in Sessions : cleanup_session_list(w, s)
       \/ \E w \in Writers : cleanup_session_remove(w)
       \/ \E s \in Sessions : read("get_session_nodes", s)
       \/ read("get_challenges_for", "n2")
       \/ \E s \in Sessions : read("to_snapshot", s)
    /\ UNCHANGED <<bus_vars, swarm_vars, lifecycle_vars, rate_vars, ws_vars, listener_vars, rehydration_vars, mirror_vars, snapshot_vars, retry_vars, mutex_vars, reaper_vars>>

RehydrationNext ==
    /\ \/ rehydration_pc = "idle" /\ \E s \in Sessions, rows \in RowLists : search_returns(s, rows)
       \/ select_candidates
    /\ UNCHANGED <<graph_vars, bus_vars, swarm_vars, lifecycle_vars, rate_vars, ws_vars,
                   listener_vars, read_vars, mirror_vars, snapshot_vars, retry_vars, mutex_vars, reaper_vars>>

MirrorNext ==
    /\ \/ \E s \in Sessions, n \in CheckpointTargets, up \in BOOLEAN : mirror_checkpoint(s, n, up)
       \/ \E e \in ExpIds, s \in Sessions, d \in Decisions, up \in BOOLEAN : mirror_retain(e, s, d, up)
       \/ \E e \in ExpIds, up \in BOOLEAN : mirror_list(e, up)
    /\ UNCHANGED <<swarm_vars, lifecycle_vars, rate_vars, ws_vars, listener_vars, read_vars,
                   rehydration_vars, snapshot_vars, retry_vars, mutex_vars, reaper_vars>>

SnapshotNext ==
    /\ \/ \E n \in NodeIds, s \in Sessions, t \in Instants : snap_add_node(n, s, t)
       \/ \E a \in NodeIds, b \in NodeIds : snap_add_edge(a, b)
       \/ \E s \in Sessions : snap_export(s)
       \/ snap_load
    /\ UNCHANGED <<graph_vars, bus_vars, swarm_vars, lifecycle_vars, rate_vars, ws_vars,
                   listener_vars, read_vars, rehydration_vars, mirror_vars, retry_vars, mutex_vars, reaper_vars>>

RetryNext ==
    /\ \/ \E policy \in RetryPolicies : retry_call(policy)
       \/ \E outcome \in AttemptOutcomes : retry_attempt(outcome)
       \/ retry_wake
    /\ UNCHANGED <<graph_vars, bus_vars, swarm_vars, lifecycle_vars, rate_vars, ws_vars,
                   listener_vars, read_vars, rehydration_vars, mirror_vars, snapshot_vars,
                   mutex_vars, reaper_vars>>

ReaperNext ==
    /\ \/ \E s \in Sessions : subscribe(s) /\ UNCHANGED <<graph_vars, reaper_vars>>
       \/ \E s \in Sessions : event_seq < MaxReaperEvents /\ publish(s, FALSE) /\ UNCHANGED <<graph_vars, reaper_vars>>
       \/ utcnow_tick /\ UNCHANGED <<graph_vars, reaper_vars>>
       \/ \E n \in ReaperNodes, s \in Sessions : add_node("w1", n, s) /\ UNCHANGED <<bus_vars, reaper_vars>>
       \/ notify("w1") /\ UNCHANGED <<bus_vars, reaper_vars>>
       \/ reaper_wake
       \/ reaper_resume
    /\ UNCHANGED <<swarm_vars, lifecycle_vars, rate_vars, ws_vars, listener_vars, read_vars, rehydration_vars, mirror_vars, snapshot_vars, retry_vars, mutex_vars>>

beside_mutex == <<graph_vars, bus_vars, swarm_vars, lifecycle_vars, rate_vars, ws_vars, listener_vars, read_vars, rehydration_vars, mirror_vars, snapshot_vars, retry_vars, reaper_vars>>

MutexNext ==
    /\ \/ \E k \in Callers, op \in LockOps : lock_call(k, op)
       \/ \E k \in Callers : lock_acquire(k)
       \/ \E k \in Callers : lock_wake(k)
       \/ \E k \in Callers, o \in {"returned", "raised", "cancelled"} : lock_await(k, o)
       \/ \E k \in Callers : lock_release(k)
       \/ \E k \in Callers : lock_cancel(k)
    /\ UNCHANGED beside_mutex

Init == GraphInit /\ BusInit /\ SwarmInit /\ LifecycleInit /\ RateInit /\ WsInit /\ ListenerInit
        /\ ReadInit /\ RehydrationInit /\ MirrorInit /\ SnapshotInit
        /\ RetryInit /\ MutexInit /\ ReaperInit

GraphSpec == Init /\ [][GraphNext]_vars

BusSpec == Init /\ [][BusNext]_vars

SwarmSpec == Init /\ [][SwarmNext]_vars

LifecycleSpec == Init /\ [][LifecycleNext]_vars

\* the variables that no background task of the lifecycle service writes
beside_lifecycle == <<graph_vars, swarm_vars, rate_vars, ws_vars, listener_vars, read_vars, rehydration_vars, mirror_vars, snapshot_vars, retry_vars, mutex_vars, reaper_vars>>

\* the requests and tasks that write the compare in-flight set, after
\* checkpoints that disagree
CompareNext ==
    /\ \/ \E n \in CheckpointTargets, x \in CheckpointTexts :
             checkpoint_node("sA", n, "disagree", x, "none") /\ UNCHANGED <<swarm_vars, rate_vars, ws_vars, listener_vars, read_vars, rehydration_vars, mirror_vars, snapshot_vars, retry_vars, mutex_vars, reaper_vars>>
       \/ /\ \E e \in ExpIds, f \in BOOLEAN, m \in BOOLEAN, c \in BOOLEAN :
               compare_hypothesis_experiment(e, f, m, c)
          /\ UNCHANGED beside_lifecycle
       \/ /\ \E t \in TaskIds : rerun_begin(t)
          /\ UNCHANGED beside_lifecycle
       \/ /\ \E t \in TaskIds, ok \in BOOLEAN : run_compare_end(t, ok)
          /\ UNCHANGED beside_lifecycle
       \/ /\ \E t \in TaskIds, ok \in BOOLEAN : checkpoint_rerun_end(t, ok)
          /\ UNCHANGED beside_lifecycle

\* the event loop runs every task it was given, and a rerun returns or raises
\* because each of its agents runs under a timeout
CompareFairSpec ==
    /\ Init
    /\ [][CompareNext]_vars
    /\ \A t \in TaskIds :
          /\ WF_vars(rerun_begin(t) /\ UNCHANGED beside_lifecycle)
          /\ WF_vars((\E ok \in BOOLEAN : run_compare_end(t, ok)) /\ UNCHANGED beside_lifecycle)
          /\ WF_vars((\E ok \in BOOLEAN : checkpoint_rerun_end(t, ok)) /\ UNCHANGED beside_lifecycle)

RateSpec == Init /\ [][RateNext]_vars

WsSpec == Init /\ [][WsNext]_vars

ListenerSpec == Init /\ [][ListenerNext]_vars

ReadSpec == Init /\ [][ReadNext]_vars

RehydrationSpec == Init /\ [][RehydrationNext]_vars

MirrorSpec == Init /\ [][MirrorNext]_vars

SnapshotSpec == Init /\ [][SnapshotNext]_vars

RetrySpec == Init /\ [][RetryNext]_vars

ReaperSpec == Init /\ [][ReaperNext]_vars

MutexSpec == Init /\ [][MutexNext]_vars

\* the event loop runs every coroutine that can go on, and a listener returns
\* or raises
MutexFairSpec ==
    /\ Init
    /\ [][MutexNext]_vars
    /\ \A k \in Callers :
          WF_vars((\/ lock_acquire(k)
                   \/ lock_wake(k)
                   \/ \E o \in {"returned", "raised"} : lock_await(k, o)
                   \/ lock_release(k)) /\ UNCHANGED beside_mutex)

(***************************************************************************)
(* Properties of the swarm pipeline                                        *)
(***************************************************************************)
AgentStatuses == {"completed", "timeout", "error"}

C8_PhaseBarriers ==
    /\ task_pc["synthesizer"] # "none" =>
          /\ \A i \in DOMAIN primary_agents : task_pc[primary_agents[i]] = "resolved"
          /\ Len(agent_results) >= Len(primary_agents)
          /\ \A i \in DOMAIN primary_agents :
                /\ agent_results[i].agent = primary_agents[i]
                /\ agent_results[i].status \in AgentStatuses
    /\ task_pc["metacognition"] # "none" => task_pc["synthesizer"] = "resolved"

\* the meta agent runs after a Phase 1 with two agents that ended differently
C8_Witness ==
    /\ task_pc["metacognition"] = "running"
    /\ Len(primary_agents) >= 2
    /\ \E i, j \in DOMAIN primary_agents :
          /\ task_result[primary_agents[i]].status = "timeout"
          /\ task_result[primary_agents[j]].status = "completed"

\* C9: a Phase 1 agent that fails or times out cancels at most its own task;
\* every sibling resolves with the outcome of its own run.
C9_FailureIsolated ==
    /\ \A a \in cancelled : fate[a] = "timeout"
    /\ \A i \in DOMAIN primary_agents :
          LET a == primary_agents[i]
          IN  task_pc[a] = "resolved" =>
                /\ fate[a] \in Outcomes
                /\ task_result[a].kind = "result"
                /\ task_result[a].status =
                      (IF fate[a] = "completed" THEN "completed"
                       ELSE IF fate[a] = "timeout" THEN "timeout" ELSE "error")

\* one agent timed out, one raised, and a sibling started before them
\* nevertheless completed
C9_Witness ==
    /\ run_pc = "phase1"
    /\ \E a, b, c \in Range(primary_agents) :
          /\ fate[a] = "timeout" /\ task_pc[a] = "resolved" /\ a \in cancelled
          /\ fate[b] = "raise" /\ task_pc[b] = "resolved"
          /\ task_pc[c] = "resolved" /\ task_result[c].status = "completed"
          /\ c \notin cancelled

\* C21: when the planner gives no plan (timeout, error, nothing usable) the
\* run launches exactly the three primary agents, each with the effort the
\* fixed table gives the complexity class of the query.
C21_FallbackEffortFromTable ==
    (run_pc \notin {"idle", "maestro"} /\ deployment_plan = <<>>) =>
        /\ primary_agents = DefaultPrimaries
        /\ \A a \in Range(primary_agents) :
              agent_effort[a] = EFFORT_MAP[classify_complexity(run_query)]

\* C22: the first event a run publishes to its session, which is the first
\* event a queue subscribed before the run takes out, is swarm_started.
C22_SwarmStartedFirst ==
    (run_pc # "idle" /\ published[run_session] # <<>>) =>
        published[run_session][1].event = "swarm_started"

\* C25: whenever the in-memory map holds an experiment, the status that a
\* retain or list request acts on and reports is the in-memory status, also
\* when the external store holds a different status for it.
C25_InMemoryCanonical ==
    [][\A e \in ExpIds :
          (/\ mem_experiments[e] # NoRow
           /\ mirror_handled' = mirror_handled + 1
           /\ mirror_response'.handler \in {"retain", "list"}
           /\ mirror_response'.experiment_id = e)
          => mirror_response'.acted_on = normalize_status(mem_experiments[e].status, "promoted")]_vars

(***************************************************************************)
(* Properties of the hypothesis lifecycle                                  *)
(***************************************************************************)
compare_reruns(experiment_id) ==
    {t \in TaskIds : /\ rerun_tasks[t].kind = "compare"
                     /\ rerun_tasks[t].experiment_id = experiment_id}

\* C2: for every experiment at most one background compare rerun is in
\* progress at any time, whatever compare requests arrive and however they
\* interleave with the reruns.
C2_OneCompareRerun ==
    \A e \in ExpIds : Cardinality(compare_reruns(e)) <= 1

\* C3: once the status of an experiment is retained, deferred or archived,
\* every later status is that same status or archived, under any sequence of
\* checkpoint, compare and retain requests and rerun completions.
C3_FinalStatusStays ==
    [][\A e \in ExpIds :
          experiments[e].status \in FINAL_LIFECYCLE_STATES =>
              experiments'[e].status \in {experiments[e].status, "archived"}]_vars

\* C12: while a background compare rerun of an experiment is in progress,
\* every further compare request on that experiment returns mode
\* already_rerunning or inflight and starts no additional rerun.
C12_CompareIdempotentWhileRerunning ==
    [][\A e \in ExpIds, f \in BOOLEAN, m \in BOOLEAN, c \in BOOLEAN :
          (compare_reruns(e) # {} /\ compare_hypothesis_experiment(e, f, m, c)) =>
              /\ response'.mode \in {"already_rerunning", "inflight"}
              /\ rerun_tasks' = rerun_tasks]_vars

\* C13: every change of the stored status of an experiment, by a checkpoint,
\* compare or retain request or by a background rerun task, is a transition
\* of the transition table; an attempt that is not in the table leaves the
\* stored status as it was.
C13_OnlyListedTransitions ==
    [][\A e \in ExpIds :
          (/\ experiments[e] # NoExperiment
           /\ experiments'[e].status # experiments[e].status) =>
              experiments'[e].status \in LIFECYCLE_TRANSITIONS[experiments[e].status]]_vars

\* C14: a checkpoint with verdict disagree and a correction creates the
\* experiment with status promoted and leaves it rerunning with a background
\* rerun task; when that task starts, swarm_rerun_started is published to
\* the session of the checkpoint; when its rerun returns, the status of the
\* experiment becomes comparing.
C14_CheckpointRerunFlow ==
    [][/\ \A s \in Sessions, n \in CheckpointTargets :
             checkpoint_node(s, n, "disagree", "correction", "none") =>
                \E e \in ExpIds :
                    /\ experiments[e] = NoExperiment
                    /\ created_status'[e] = "promoted"
                    /\ experiments'[e].status = "rerunning"
                    /\ experiments'[e].session_id = s
                    /\ \E t \in TaskIds :
                          /\ rerun_tasks[t] = NoTask
                          /\ rerun_tasks'[t].kind = "checkpoint"
                          /\ rerun_tasks'[t].experiment_id = e
                          /\ rerun_tasks'[t].session_id = s
       /\ \A t \in TaskIds :
             (rerun_tasks[t].kind = "checkpoint" /\ rerun_begin(t)) =>
                LET log == published'[rerun_tasks[t].session_id]
                IN  /\ Len(log) = Len(published[rerun_tasks[t].session_id]) + 1
                    /\ log[Len(log)].event = "swarm_rerun_started"
       /\ \A t \in TaskIds :
             (rerun_tasks[t].experiment_id # "none" /\ checkpoint_rerun_end(t, TRUE)) =>
                /\ experiments'[rerun_tasks[t].experiment_id].status = "comparing"
                /\ experiments'[rerun_tasks[t].experiment_id].comparison_result = "result"
      ]_vars

\* the only request so far was such a checkpoint; its rerun has started and
\* returned and the experiment is comparing
C14_Witness ==
    /\ handled = 1
    /\ response = [handler |-> "checkpoint", mode |-> "rerun_started"]
    /\ \E e \in ExpIds :
          /\ created_status[e] = "promoted"
          /\ experiments[e].status = "comparing"
          /\ \E i \in DOMAIN published[experiments[e].session_id] :
                published[experiments[e].session_id][i].event = "swarm_rerun_started"
    /\ \A t \in TaskIds : rerun_tasks[t] = NoTask

\* C39: at all times the counter of completed comparisons is at most the
\* counter of compare requests (so the completion rate lies between 0 and 1),
\* whatever the interleaving of requests and background reruns.
C39_CompletedAtMostRequests ==
    /\ 0 <= lifecycle_metrics.compare_completed
    /\ lifecycle_metrics.compare_completed <= lifecycle_metrics.compare_requests

\* a second compare request was counted while the rerun of the first one had
\* completed and its own rerun is still running
C39_Witness ==
    /\ lifecycle_metrics.compare_requests = 2
    /\ lifecycle_metrics.compare_completed = 1
    /\ \E t \in TaskIds : rerun_tasks[t].kind = "compare" /\ rerun_tasks[t].pc = "running"
    /\ response.mode = "async_started"

\* C40: the two in-memory experiment maps agree after any sequence of
\* upserts: an experiment id is in the index of session S exactly if the
\* by-id map holds that experiment with session id S, so each experiment is
\* listed under one session only.
C40_IndexMatchesStore ==
    \A e \in ExpIds, s \in Sessions :
        e \in ids_by_session[s] <=>
            (experiments[e] # NoExperiment /\ experiments[e].session_id = s)

(***************************************************************************)
(* Properties of the rate limiter                                          *)
(***************************************************************************)
\* the accepted requests of a session inside the window that ends at time
accepted_in_window(session_id, time) ==
    {i \in DOMAIN rate_accepted[session_id] :
        /\ rate_accepted[session_id][i] > time - RateLimitWindow
        /\ rate_accepted[session_id][i] <= time}

\* C15: a start request of a session is answered 429 exactly when at least
\* `limit` accepted requests of that session lie within the window before
\* it; a refused request and requests of other sessions do not count; no
\* session ever has more than `limit` accepted requests inside one window.
C15_SlidingWindowPerSession ==
    /\ [](\A s \in Sessions : \A time \in 0..MaxClock :
            Cardinality(accepted_in_window(s, time)) <= RateLimitRequests)
    /\ [][\A s \in Sessions :
            start_swarm(s) =>
              /\ (start_response'.status = "429") <=>
                    Cardinality(accepted_in_window(s, monotonic)) >= RateLimitRequests
              /\ start_response'.status = "429" => rate_accepted' = rate_accepted
              /\ start_response'.status # "429" =>
                    /\ start_response'.status = "started"
                    /\ rate_accepted'[s] = Append(rate_accepted[s], monotonic)
              /\ \A o \in Sessions \ {s} : rate_accepted'[o] = rate_accepted[o]]_vars

\* a session is refused although it was accepted more often than the limit
\* over time, while the other session was still accepted at the same time
C15_Witness ==
    /\ start_response = [session_id |-> "sA", status |-> "429"]
    /\ Len(rate_accepted["sA"]) > RateLimitRequests
    /\ Len(rate_accepted["sB"]) >= 1
    /\ rate_accepted["sB"][Len(rate_accepted["sB"])] = monotonic

(***************************************************************************)
(* Properties of the WebSocket endpoint                                    *)
(***************************************************************************)
\* the queues that are subscribed for some session
subscribed_queues == UNION {Range(subscribers[s]) : s \in Sessions}

\* C16: a connection that presents an invalid token is closed with code
\* 4001 without being accepted, no queue is subscribed for it, and it is
\* never sent a bus event.
C16_InvalidTokenRejected ==
    /\ [][\A c \in Connections, s \in Sessions, token \in Tokens :
            (ws_connect(c, s, token) /\ token # ExpectedToken) =>
               /\ ws_close_code'[c] = 4001
               /\ ws_pc'[c] = "closed"
               /\ ~ws_accepted'[c]
               /\ subscribers' = subscribers
               /\ queue_session' = queue_session]_vars
    /\ [](\A c \in Connections :
            ws_close_code[c] = 4001 =>
               /\ ~ws_accepted[c]
               /\ ws_queue[c] = 0
               /\ ws_sent[c] = 0
               /\ heartbeat_task[c] = "none"
               /\ drain_task[c] = "none")

\* one connection of a session was rejected while another connection of the
\* same session was accepted and has been sent an event
C16_Witness ==
    /\ ws_close_code["c1"] = 4001
    /\ ws_session["c1"] = "sA"
    /\ ws_session["c2"] = "sA"
    /\ ws_accepted["c2"]
    /\ ws_sent["c2"] >= 1

\* C17: when an accepted handler has exited, for whatever reason, its queue
\* is no longer subscribed and neither helper task is still running.
C17_ExitReleasesQueueAndHelpers ==
    \A c \in Connections :
        (ws_pc[c] = "closed" /\ ws_accepted[c]) =>
            /\ ws_queue[c] \notin subscribed_queues
            /\ heartbeat_task[c] \in {"cancelled", "finished"}
            /\ drain_task[c] \in {"cancelled", "finished"}

\* one handler left on idle timeout with both helpers cancelled, the other
\* on a failed send after its drain helper had already returned
C17_Witness ==
    /\ ws_pc["c1"] = "closed" /\ ws_close_code["c1"] = 4002
    /\ heartbeat_task["c1"] = "cancelled" /\ drain_task["c1"] = "cancelled"
    /\ ws_pc["c2"] = "closed" /\ ws_close_code["c2"] = 4003
    /\ drain_task["c2"] = "finished"

(***************************************************************************)
(* Properties of the change listeners                                      *)
(***************************************************************************)
\* the writers whose call is inside _notify
notifying == {w \in Writers : writer_pc[w] \in {"notify", "in_listener"}}

\* the mutation op is in the graph
committed(nodes, edges, op) ==
    IF op.kind = "node_added"
    THEN nodes[op.id] = op.session_id
    ELSE <<op.source_id, op.target_id>> \in edges

\* C18: with several writers calling add_node and add_edge, every listener
\* is called with the mutations in the order in which they were applied,
\* and the notification of one mutation is over before that of the next
\* one starts.
C18_ListenersSeeCommitOrder ==
    /\ \A l \in Listeners : \A i, j \in DOMAIN listener_log[l] :
          i < j => listener_log[l][i] < listener_log[l][j]
    /\ Cardinality(notifying) <= 1
    /\ \A w \in notifying : \A l \in Listeners : \A i \in DOMAIN listener_log[l] :
          listener_log[l][i] <= writer_seq[w]

\* both writers have applied a mutation and both listeners were called
\* with the two mutations
C18_Witness ==
    /\ writer_seq["w1"] = 1 /\ writer_seq["w2"] = 2
    /\ listener_log[1] = <<1, 2>>
    /\ listener_log[2] = <<1, 2>>
    /\ writer_result["w1"] = "ok" /\ writer_result["w2"] = "ok"

\* C20: when a listener raises an exception during a notification, the
\* mutation stays in the graph, the loop goes on to the remaining
\* listeners, and the call returns normally after all registered listeners
\* were called.
C20_ListenerErrorIsolated ==
    [][\A w \in Writers :
          /\ listener_done(w, "Exception") =>
                /\ writer_pc'[w] = "notify"
                /\ notify_index'[w] = notify_index[w] + 1
                /\ graph_lock' = w
                /\ committed(graph_nodes', graph_edges', writer_op'[w])
          /\ (notify_return(w) /\ listener_raised[w] # {}) =>
                /\ notified[w] = 1..listeners
                /\ writer_result'[w] = "ok"
                /\ committed(graph_nodes', graph_edges', writer_op[w])]_vars

\* an add_node call returned normally although the first of two listeners
\* raised; the second listener was called and the node is in the graph
C20_Witness ==
    /\ writer_result["w1"] = "ok"
    /\ writer_pc["w1"] = "idle"
    /\ listener_raised["w1"] = {1}
    /\ notified["w1"] = {1, 2}
    /\ listener_log[2] # <<>>
    /\ \E n \in NodeIds : graph_nodes[n] # Absent /\ graph_nodes[n] # Bare

\* listener l was called for an earlier mutation than the one of writer w;
\* mutations are serialized by the lock, so l was registered when w mutated
registered_at_mutation(l, w) ==
    \E i \in DOMAIN listener_log[l] : listener_log[l][i] < writer_seq[w]

\* C37: for every node and edge that is in the graph, the notification of
\* each listener that was registered when it was inserted has run to its
\* end, also when the agent task is cancelled by its timeout while it awaits
\* a listener.
C37_PresentMutationsFullyNotified ==
    [][\A w \in Writers, l \in Listeners :
          (/\ writer_pc[w] \in {"notify", "in_listener"}
           /\ writer_pc'[w] = "idle"
           /\ registered_at_mutation(l, w))
          => l <= notify_index'[w]]_vars

(***************************************************************************)
(* Properties of the readers                                               *)
(***************************************************************************)
\* C19: a read over several nodes returns the view of a graph state that
\* lies before or after every mutation (add_node, add_edge, load_snapshot,
\* cleanup_session), never of a state inside one of them.
C19_ReadsSeeNoPartialMutation ==
    [][\A k \in ReadKinds, a \in ReadArgs :
          read(k, a) =>
             \E g \in graph_history :
                 last_read'.view = read_view(k, a, g.nodes, g.edges)]_vars

\* a snapshot export that shows an edge was read while a writer was still
\* inside add_node or add_edge, after a load_snapshot and a cleanup_session
C19_Witness ==
    /\ last_read.kind = "to_snapshot"
    /\ \E v \in last_read.view : v.edges # {}
    /\ \E w \in Writers : writer_pc[w] = "notify"
    /\ Cardinality(graph_history) >= 3

\* C38: once cleanup_session has been called for every session that ever
\* added a node, the graph holds no node and no edge: a cleanup_session call
\* that returns with no node of any session left returns with an empty graph.
C38_CleanupLeavesNothing ==
    [][\A w \in Writers :
          (/\ \/ \E s \in Sessions : cleanup_session_list(w, s)
              \/ cleanup_session_remove(w)
           /\ writer_pc'[w] = "idle"
           /\ \A s \in Sessions : session_node_ids(graph_nodes', s) = {})
          => /\ in_graph(graph_nodes') = {}
             /\ graph_edges' = {}]_vars

(***************************************************************************)
(* Properties of the rehydration selection                                 *)
(***************************************************************************)
\* C23: when at least one retrieved candidate comes from another session
\* than the current one, every selected candidate comes from another session.
C23_CrossSessionOnly ==
    (rehydration_pc = "selected"
       /\ \E i \in DOMAIN candidates : candidates[i].session_id # rehydration_session) =>
        /\ selected_rows # <<>>
        /\ \A i \in DOMAIN selected_rows :
              selected_rows[i].session_id # rehydration_session

\* the best candidate was of the current session, candidates of another
\* session and one without session were there too, and the selection is full
C23_Witness ==
    /\ rehydration_pc = "selected"
    /\ rehydration_session = "sA"
    /\ Len(candidates) = 3
    /\ candidates[1].session_id = "sA" /\ candidates[1].score = 2
    /\ candidates[2].session_id = "sB" /\ candidates[2].score = 1
    /\ candidates[3].session_id = "unknown"
    /\ Len(selected_rows) = TopK

\* C24: every edge of the graph connects two nodes that carry the same
\* session id.
C24_EdgesWithinSession ==
    \A e \in graph_edges :
        /\ graph_nodes[e[1]] \in Sessions
        /\ graph_nodes[e[2]] = graph_nodes[e[1]]

\* the status a retention decision asks for
DecisionStatus == [retain |-> "retained", defer |-> "deferred", archive |-> "archived"]

\* C26: a retain request that is carried out stores the status of its
\* decision (retain -> retained, defer -> deferred, archive -> archived);
\* a request whose target status is not listed for the current status
\* answers 409 and leaves the stored experiment (status and decision), the
\* retention counters and the event stream as they were.
C26_RejectedRetainChangesNothing ==
    [][\A e \in ExpIds, d \in Decisions :
          (retain_hypothesis_experiment(e, d) /\ experiments[e] # NoExperiment) =>
              LET current == normalize_status(experiments[e].status, "promoted")
                  repeated == /\ current \in FINAL_LIFECYCLE_STATES
                              /\ experiments[e].retention_decision = d
              IN  /\ (response'.mode = "updated") =>
                         /\ experiments'[e].status = DecisionStatus[d]
                         /\ experiments'[e].retention_decision = d
                  /\ (~repeated /\ DecisionStatus[d] \notin LIFECYCLE_TRANSITIONS[current]) =>
                         /\ response' = [handler |-> "retain", mode |-> "409"]
                         /\ UNCHANGED <<experiments, lifecycle_metrics, bus_vars>>]_vars

\* a retain request was answered 409 for a retained experiment
C26_Witness ==
    /\ response = [handler |-> "retain", mode |-> "409"]
    /\ \E e \in ExpIds : /\ experiments[e].status = "retained"
                         /\ experiments[e].retention_decision = "retain"
    /\ lifecycle_metrics.retain = 1
    /\ lifecycle_metrics.defer = 0

\* C27: a retain request that repeats the decision of an experiment already
\* in the final status of that decision returns the experiment and changes
\* nothing: no write to the store, no counter incremented, no event
\* published.
C27_RepeatedRetainIsIdempotent ==
    [][\A e \in ExpIds, d \in Decisions :
          (/\ retain_hypothesis_experiment(e, d)
           /\ experiments[e].status = DecisionStatus[d]
           /\ experiments[e].retention_decision = d)
          => /\ response' = [handler |-> "retain", mode |-> "unchanged"]
             /\ UNCHANGED <<experiments, ids_by_session, lifecycle_metrics, bus_vars>>]_vars

\* a retain request repeated its decision on a deferred experiment
C27_Witness ==
    /\ response = [handler |-> "retain", mode |-> "unchanged"]
    /\ \E e \in ExpIds : /\ experiments[e].status = "deferred"
                         /\ experiments[e].retention_decision = "defer"
    /\ lifecycle_metrics.defer = 1

\* a step of the compare handler
CompareStep == handled' = handled + 1 /\ response'.handler = "compare"

\* the compare reruns that have not ended
CompareTasks == {t \in TaskIds : rerun_tasks[t].kind = "compare"}

C29_SnapshotRoundTrip ==
    snap_pc = "loaded" =>
        LET node_ids == session_node_ids(snap_nodes, exported.session_id)
        IN  /\ Cardinality(in_graph(new_graph.nodes)) = Cardinality(node_ids)
            /\ Cardinality(new_graph.edges) =
                  Cardinality({e \in snap_edges : e[1] \in node_ids /\ e[2] \in node_ids})
            /\ \A n \in node_ids : new_graph.attrs[n] = snap_attrs[n]

(***************************************************************************)
(* Properties of the retry discipline                                      *)
(***************************************************************************)
\* C31: an operation whose every attempt fails with a transient error is
\* attempted at most three times in total, with a backoff delay between
\* consecutive attempts, before the error reaches the caller.
C31_AtMostThreeAttempts ==
    (retry.pc = "raised"
       /\ \A i \in DOMAIN retry.errors : retry.errors[i] \cap PERMANENT_PATTERNS = {}) =>
        /\ retry.calls <= 3
        /\ Len(retry.sleeps) = retry.calls - 1

\* C32: an operation that fails with a permanent error is attempted exactly
\* once and the error reaches the caller without a retry or a delay; an
\* error that matches no pattern is followed by a delay and a retry while
\* retries are left.
C32_PermanentNotRetried ==
    /\ (Len(retry.errors) >= 1 /\ retry.errors[1] \cap PERMANENT_PATTERNS # {}) =>
          /\ retry.pc = "raised"
          /\ retry.calls = 1
          /\ retry.sleeps = <<>>
          /\ retry.raised = retry.errors[1]
    /\ \A i \in DOMAIN retry.errors :
          (retry.errors[i] = {} /\ i <= retry.max_retries) =>
              /\ Len(retry.sleeps) >= i
              /\ retry.pc = "raised" => Len(retry.errors) > i

\* an error that matches a permanent and a transient pattern was raised to
\* the caller at the first attempt
C32_Witness ==
    /\ retry.pc = "raised"
    /\ retry.calls = 1
    /\ retry.raised = {"auth", "timeout"}

\* C33: when a retain request has put an experiment into a final status
\* while a compare rerun for it is in progress, the completion or the
\* failure of that rerun leaves the stored status as it is.
C33_RerunKeepsFinalStatus ==
    [][\A t \in TaskIds, ok \in BOOLEAN :
          (/\ run_compare_end(t, ok)
           /\ experiments[rerun_tasks[t].experiment_id].status \in {"retained", "deferred", "archived"})
          => experiments'[rerun_tasks[t].experiment_id].status =
                experiments[rerun_tasks[t].experiment_id].status]_vars

\* C34: every experiment id that is added to the compare in-flight set is
\* removed from it later, when the rerun succeeds, when it fails, and when
\* the request fails before the rerun task is started.
C34_InflightEventuallyRemoved ==
    /\ \A e \in ExpIds : (e \in compare_inflight) ~> (e \notin compare_inflight)
    /\ [][(handled' # handled /\ response'.mode = "500") => compare_inflight' = {}]_vars

\* a compare request started a rerun, the rerun is over and the set is empty
C34_Witness ==
    /\ response = [handler |-> "compare", mode |-> "async_started"]
    /\ lifecycle_metrics.compare_requests = 1
    /\ \A t \in TaskIds : rerun_tasks[t] = NoTask
    /\ compare_inflight = {}

(***************************************************************************)
(* Properties of the mutexes                                               *)
(***************************************************************************)
\* a waits for a lock that b holds
waits_for == {p \in Callers \X Callers : \E l \in Locks : p[1] \in Range(mutex.waiters[l]) /\ mutex.owner[l] = p[2]}

\* the pairs joined by one or two steps of R
twice(R) == R \cup {p \in Callers \X Callers : \E c \in Callers : <<p[1], c>> \in R /\ <<c, p[2]>> \in R}

\* a caller that waits, directly or through others, for itself
cyclic_wait == \E k \in Callers : <<k, k>> \in twice(twice(waits_for))

\* C35: with listeners that do not call back into the graph there is never a
\* cyclic wait over the graph, rate-limit, experiment-store, metrics and
\* in-flight mutexes, and every add_node, add_edge and cleanup_session call
\* returns in the end.
C35_NoCyclicWaitAndReturn ==
    /\ [](~cyclic_wait)
    /\ \A k \in Callers :
          (mutex.op[k] \in {"add_node", "add_edge", "add_edge_cycle", "cleanup_session"})
             ~> (mutex.todo[k] = <<>>)

\* one caller awaits the listeners inside the graph lock while the other
\* waits for that lock with a cleanup_session call
C35_Witness ==
    /\ mutex.owner["graph"] = "k1"
    /\ Head(mutex.todo["k1"]).do = "await"
    /\ mutex.waiters["graph"] = <<"k2">>
    /\ mutex.op["k2"] = "cleanup_session"

(***************************************************************************)
(* Properties of the stale-session reaper                                  *)
(***************************************************************************)
\* C36: the reaper removes the queues and the graph nodes of a session only
\* if, at the moment of the removal, the session had no subscribe and no
\* publish for longer than the maximum age; a session that became active
\* after the stale list was computed keeps its queues and nodes.
C36_ReaperRemovesOnlyStale ==
    [][\A s \in Sessions :
          (/\ reaper_wake \/ reaper_resume
           /\ session_timestamps[s] # NoTimestamp
           /\ now - session_timestamps[s] <= StaleMaxAge)
          => /\ subscribers'[s] = subscribers[s]
             /\ session_node_ids(graph_nodes', s) = session_node_ids(graph_nodes, s)]_vars

(***************************************************************************)
(* Properties of the reasoning graph                                       *)
(***************************************************************************)
\* n lies on a directed cycle (a self-loop included)
on_cycle(edges, n) == n \in reach(edges, successors(edges, {n}))

\* C1: at all times the edge set contains no directed cycle, self-loops
\* included, after any sequence of add_node and add_edge calls
C1_GraphAcyclic == \A n \in NodeIds : ~on_cycle(graph_edges, n)

\* a step in which a writer's add_edge call ends with CycleDetectedError
raises_cycle_detected(w) ==
    /\ writer_result[w] # "CycleDetected"
    /\ writer_result'[w] = "CycleDetected"

\* C10: an add_edge call that fails with CycleDetected leaves the node set,
\* the node attributes and the edge set as they were and notifies no listener
C10_CycleDetectedLeavesGraph ==
    [][(\E w \in Writers : raises_cycle_detected(w))
         => UNCHANGED <<graph_nodes, graph_edges, notifications>>]_vars

\* a rejected add_edge on a graph that still has exactly one edge
C10_Witness ==
    /\ \E w \in Writers : writer_result[w] = "CycleDetected"
    /\ Cardinality(graph_edges) = 1
    /\ Len(notifications) >= 1

C30_PublishWithoutSubscribersIsNoOp ==
    [][\A s \in Sessions, raw \in BOOLEAN :
          (publish(s, raw) /\ subscribers[s] = <<>>) =>
              UNCHANGED <<queues, subscribers, queue_session, session_timestamps,
                          drop_counts>>]_vars

(***************************************************************************)
(* Properties of the event bus                                             *)
(***************************************************************************)
\* everything a queue has been given so far: what its consumer took, then
\* what still waits in it
received(q) == delivered[q] \o queues[q]

\* C5: an event published under session A is never enqueued into a queue
\* that was subscribed under a different session B
C5_SessionIsolation ==
    \A q \in created_queues : \A s \in Sessions :
        (Range(received(q)) \cap Range(published[s]) # {}) => s = queue_session[q]

\* a queue still registered under sA holds an event while the latest event
\* of the bus was published under sB
C5_Witness ==
    \E q \in Range(subscribers["sA"]) :
        /\ queues[q] # <<>>
        /\ published["sB"] # <<>>
        /\ published["sB"][Len(published["sB"])].seq = event_seq
        /\ subscribers["sB"] # <<>>

RECURSIVE is_subsequence(_, _)
is_subsequence(a, b) ==
    IF a = <<>> THEN TRUE
    ELSE IF b = <<>> THEN FALSE
    ELSE IF Head(a) = Head(b) THEN is_subsequence(Tail(a), Tail(b))
    ELSE is_subsequence(a, Tail(b))

\* C6: what a subscriber queue delivers is a subsequence, in publish order,
\* of what was published to its session: nothing twice, nothing out of
\* order, also when events were dropped
C6_PublishOrder ==
    \A q \in created_queues :
        is_subsequence(received(q), published[queue_session[q]])

\* a consumer has taken two events and a later event of its session was
\* dropped for its queue
C6_Witness ==
    \E q \in created_queues :
        /\ Len(delivered[q]) >= 2
        /\ drop_counts[queue_session[q]] >= 1
        /\ Len(published[queue_session[q]]) > Len(received(q))

\* the session a step publishes to
publishes_to(s) == published'[s] # published[s]

full_queues(s) == {i \in DOMAIN subscribers[s] : queue_full(queues[subscribers[s][i]])}

\* C7: a publish discards the event for each full queue only, counts one
\* drop per full queue, and still appends the event to every queue of the
\* session that has free capacity
C7_FullQueueDrops ==
    [][\A s \in Sessions : publishes_to(s) =>
          LET item == published'[s][Len(published'[s])]
          IN  /\ \A i \in DOMAIN subscribers[s] :
                    LET q == subscribers[s][i]
                    IN  queues'[q] = IF i \in full_queues(s)
                                     THEN queues[q]
                                     ELSE Append(queues[q], item)
              /\ drop_counts'[s] = drop_counts[s] + Cardinality(full_queues(s))
              /\ subscribers' = subscribers]_vars

\* the latest event of a session was dropped for a full queue listed before
\* a second queue of the session, which received it
C7_Witness ==
    \E s \in Sessions :
        /\ Len(subscribers[s]) >= 2
        /\ published[s] # <<>>
        /\ LET item == published[s][Len(published[s])]
               q1 == subscribers[s][1]
               q2 == subscribers[s][2]
           IN  /\ Len(queues[q1]) = QueueMaxSize
               /\ item \notin Range(received(q1))
               /\ item \in Range(queues[q2])
               /\ drop_counts[s] >= 1

====
